---------------------------- MODULE Spec2Model ----------------------------
(***************************************************************************)
(* A model of PDFTranslator (src/translaterapp.py): block merging and unit *)
(* extraction (analyze_pdf, _merge_related_blocks), the chunked translator *)
(* (translate_text, _fallback_dictionary_translation), the layout fitter   *)
(* (adjust_font_size, calculate_text_wrap) and the page rewriter           *)
(* (translate_pdf).                                                        *)
(*                                                                         *)
(* A Python str is a sequence of code points (integers): len is Len,       *)
(* ord is the identity.  A dict object that the code aliases is modelled   *)
(* with an explicit heap of list objects.                                  *)
(***************************************************************************)
EXTENDS Integers, Sequences, FiniteSets, TLC

VARIABLES
    \* ---- _merge_related_blocks / analyze_pdf of one page --------------
    m_pc,            \* position in the merge/analysis of the page
    blocks,          \* the raw blocks of the page (dicts), in input order
    heap,            \* list objects: heap[r] is the content of block["lines"]
    sorted_blocks,   \* indices of blocks, sorted by top y
    m_idx,           \* loop position in sorted_blocks
    merged_blocks,   \* the output list of the merge pass
    has_current,     \* current_block is not None
    current_block,   \* the accumulator
    current_y,       \* the accumulator's reference y
    m_trace,         \* what each loop iteration did: "emit", "start", "merge"
    text_blocks,     \* the units analyze_pdf builds from merged_blocks
    \* ---- translate_text ----------------------------------------------
    tt_pc,           \* position in translate_text
    tt_text,         \* the text argument of the outer call
    tt_lang,         \* target_language
    tt_stub,         \* what the provider answers when it succeeds
    provider,        \* "up", "down", or "flaky": each call may fail
    tt_depth,        \* 0 in the outer call, 1 in the call of line 72
    tt_cur,          \* the text argument of the call that is running
    paragraphs,      \* line 58
    tt_pidx,         \* position of the loop of line 66
    translated_paragraphs,
    attempt,         \* the loop variable of line 79
    chunks,          \* line 91
    tt_cidx,         \* position of the loop of line 111
    translated_chunks,
    tt_result,       \* the value the outer call returned
    tt_log,          \* provider calls, st.error, st.warning and sleeps, in order
    \* ---- adjust_font_size / calculate_text_wrap ------------------------
    f_pc,            \* "adjust", "wrap", "done"
    f_text,          \* text
    f_width,         \* rect_width, max_width
    f_size,          \* original_font_size
    f_adjusted,      \* what adjust_font_size returned
    f_lines,         \* what calculate_text_wrap returned
    \* ---- translate_pdf ---------------------------------------------------
    pdf_pc,          \* position in translate_pdf
    doc,             \* the input document: parsable or not, and its pages
    target_language,
    blocks_by_page,  \* line 402: the units of each page, in extraction order
    total_pages,
    page_num,
    unit_idx,        \* position of the loop of line 420, from 1
    translated_text,
    adjusted_font_size,
    wrapped_lines,
    line_idx,        \* position of the loop of line 475, from 0
    pdf_log,         \* what translate_pdf did, in order
    pdf_result,      \* "none" while running, then "bytes" or "None"
    faults_left      \* how many more exceptions the document model may raise

mergeVars == <<m_pc, blocks, heap, sorted_blocks, m_idx, merged_blocks,
               has_current, current_block, current_y, m_trace, text_blocks>>

ttVars == <<tt_pc, tt_text, tt_lang, tt_stub, provider, tt_depth, tt_cur, paragraphs,
            tt_pidx, translated_paragraphs, attempt, chunks, tt_cidx,
            translated_chunks, tt_result, tt_log>>

fontVars == <<f_pc, f_text, f_width, f_size, f_adjusted, f_lines>>

pdfVars == <<pdf_pc, doc, target_language, blocks_by_page, total_pages,
             page_num, unit_idx, translated_text, adjusted_font_size,
             wrapped_lines, line_idx, pdf_log, pdf_result, faults_left>>

vars == <<mergeVars, ttVars, fontVars, pdfVars>>

-----------------------------------------------------------------------------
(* Small integer helpers *)

MinOf(S) == CHOOSE x \in S : \A y \in S : x <= y
MaxOf(S) == CHOOSE x \in S : \A y \in S : x >= y
Abs(x) == IF x < 0 THEN -x ELSE x
Min2(a, b) == IF a <= b THEN a ELSE b
Max2(a, b) == IF a >= b THEN a ELSE b

-----------------------------------------------------------------------------
(* Python str helpers, on sequences of code points *)

\* line breaks alone taken as whitespace
IsSpace_OnlyNewline(c) == c = 10
\* str.isspace() of one character, also the regex class \s
IsSpace(c) == c \in {9, 10, 11, 12, 13, 32}
\* str.isdigit() of one character (ASCII digits)
IsDigitChar(c) == c \in 48..57
IsUpperChar(c) == c \in 65..90
IsLowerChar(c) == c \in 97..122
\* [a-zA-Z]
IsAsciiLetter(c) == IsUpperChar(c) \/ IsLowerChar(c)

\* Index of the first non-whitespace character of s, Len(s)+1 if none
FirstNonSpace(s) ==
    IF \E i \in 1..Len(s) : ~IsSpace(s[i])
    THEN CHOOSE i \in 1..Len(s) :
            ~IsSpace(s[i]) /\ \A j \in 1..(i-1) : IsSpace(s[j])
    ELSE Len(s) + 1

\* Index of the last non-whitespace character of s, 0 if none
LastNonSpace(s) ==
    IF \E i \in 1..Len(s) : ~IsSpace(s[i])
    THEN CHOOSE i \in 1..Len(s) :
            ~IsSpace(s[i]) /\ \A j \in (i+1)..Len(s) : IsSpace(s[j])
    ELSE 0

\* s.strip()
Strip(s) == SubSeq(s, FirstNonSpace(s), LastNonSpace(s))

\* truthiness of s.strip()
IsBlank(s) == \A i \in 1..Len(s) : IsSpace(s[i])

\* sep.join(parts)
RECURSIVE Join(_, _)
Join(parts, sep) ==
    IF parts = <<>> THEN <<>>
    ELSE IF Len(parts) = 1 THEN parts[1]
    ELSE parts[1] \o sep \o Join(Tail(parts), sep)

-----------------------------------------------------------------------------
(* _merge_related_blocks, src/translaterapp.py 241-294 *)

\* max_y_gap = 15
max_y_gap == 15

\* A bbox is <<x0, y0, x1, y1>>
NoBBox == <<0, 0, 0, 0>>
\* the value of current_block while it is None
NoBlock == [type |-> 0, has_lines |-> FALSE, bbox |-> NoBBox, lines |-> 0]

\* sorted(blocks, key=lambda b: b["bbox"][1]): a stable insertion sort of the
\* block indices by top y
RECURSIVE InsertByTop(_, _, _)
InsertByTop(bs, srt, i) ==
    IF srt = <<>> THEN <<i>>
    ELSE IF bs[srt[Len(srt)]].bbox[2] <= bs[i].bbox[2] THEN Append(srt, i)
    ELSE Append(InsertByTop(bs, SubSeq(srt, 1, Len(srt) - 1), i), srt[Len(srt)])

RECURSIVE SortPrefix(_, _)
SortPrefix(bs, n) ==
    IF n = 0 THEN <<>> ELSE InsertByTop(bs, SortPrefix(bs, n - 1), n)

SortedByTop(bs) == SortPrefix(bs, Len(bs))

\* no block is passed through
IsNonText_Never(b) == FALSE
\* the test of line 256: a block the merge pass passes through
IsNonText(b) == b.type # 0 \/ ~b.has_lines

\* the reference y a fresh accumulator gets (line 270)
StartY(b) == b.bbox[2]

\* the test of line 263
StartsNew(hc, cy, b) == ~hc \/ Abs(b.bbox[2] - cy) > max_y_gap

\* the union of lines 280-285
UnionBBox(a, b) ==
    <<Min2(a[1], b[1]), Min2(a[2], b[2]), Max2(a[3], b[3]), Max2(a[4], b[4])>>

\* One iteration of the loop of lines 254-288 on the merge state
\* st = [merged, has_current, current_block, current_y, heap, did]
MergeOne(st, b) ==
    IF IsNonText(b)
    THEN [st EXCEPT !.merged = Append(@, b), !.did = "emit"]
    ELSE IF StartsNew(st.has_current, st.current_y, b)
    THEN [st EXCEPT
            !.merged = IF st.has_current THEN Append(@, st.current_block) ELSE @,
            \* block.copy() is shallow: the copy shares the list block["lines"]
            !.current_block = b,
            !.has_current = TRUE,
            !.current_y = StartY(b),
            !.did = "start"]
    ELSE LET cb == st.current_block
             nb == UnionBBox(cb.bbox, b.bbox)
         IN [st EXCEPT
               \* current_block["lines"].extend(block["lines"]) changes the list
               \* object in place
               !.heap = IF cb.has_lines
                        THEN [@ EXCEPT ![cb.lines] = @ \o st.heap[b.lines]]
                        ELSE @,
               !.current_block = [cb EXCEPT !.bbox = nb],
               !.current_y = nb[4],
               !.did = "merge"]

\* lines 291-292
MergeClose(st) ==
    IF st.has_current THEN Append(st.merged, st.current_block) ELSE st.merged

MergeStart(hp) ==
    [merged |-> <<>>, has_current |-> FALSE, current_block |-> NoBlock,
     current_y |-> 0, heap |-> hp, did |-> "none"]

RECURSIVE MergeFold(_, _, _, _)
MergeFold(st, bs, srt, i) ==
    IF i > Len(srt) THEN st
    ELSE MergeFold(MergeOne(st, bs[srt[i]]), bs, srt, i + 1)

\* the whole call: the merged list and the heap it leaves behind
merge_related_blocks(bs, hp) ==
    IF bs = <<>> THEN [merged |-> <<>>, heap |-> hp]
    ELSE LET st == MergeFold(MergeStart(hp), bs, SortedByTop(bs), 1)
         IN [merged |-> MergeClose(st), heap |-> st.heap]

-----------------------------------------------------------------------------
(* analyze_pdf, the loop over merged blocks, lines 202-233 *)

RECURSIVE FlattenLines(_)
FlattenLines(lines) ==
    IF lines = <<>> THEN <<>> ELSE lines[1] \o FlattenLines(Tail(lines))

\* every span is kept
KeptSpans_All(lines) == FlattenLines(lines)
\* the spans with span["text"].strip() truthy, in order
KeptSpans(lines) == SelectSeq(FlattenLines(lines), LAMBDA sp : ~IsBlank(sp.text))

RECURSIVE BlockText(_)
BlockText(spans) ==
    IF spans = <<>> THEN <<>>
    ELSE spans[1].text \o <<32>> \o BlockText(Tail(spans))

\* max_x = 0, max_y = 0 before the loop (lines 209-210)
MaxStart == 0

\* min_x, min_y start at inf; max_x, max_y start at MaxStart
SpanBBox(spans) ==
    <<MinOf({spans[i].bbox[1] : i \in 1..Len(spans)}),
      MinOf({spans[i].bbox[2] : i \in 1..Len(spans)}),
      MaxOf({MaxStart} \cup {spans[i].bbox[3] : i \in 1..Len(spans)}),
      MaxOf({MaxStart} \cup {spans[i].bbox[4] : i \in 1..Len(spans)})>>

\* the units of one page, from its merged blocks and the heap
RECURSIVE UnitsOf(_, _, _)
UnitsOf(merged, hp, pg) ==
    IF merged = <<>> THEN <<>>
    ELSE LET b == merged[1]
             rest == UnitsOf(Tail(merged), hp, pg)
         IN IF ~b.has_lines THEN rest
            ELSE LET spans == KeptSpans(hp[b.lines])
                 IN IF IsBlank(BlockText(spans)) THEN rest
                    ELSE <<[page |-> pg,
                            text |-> Strip(BlockText(spans)),
                            spans |-> spans,
                            bbox |-> SpanBBox(spans),
                            block_type |-> b.type]>> \o rest

-----------------------------------------------------------------------------
(* translate_text: the string functions, src/translaterapp.py 38-167 *)

\* max_length = 4000 (line 85)
max_length == 4000
\* max_retries=3 (line 38): the only caller (line 444) uses the default
max_retries == 3

\* str.isdigit()
IsDigit(s) == s # <<>> /\ \A i \in 1..Len(s) : IsDigitChar(s[i])

\* the last index of the whitespace run that holds index i
RunEnd(s, i) ==
    CHOOSE j \in i..Len(s) :
        /\ \A k \in i..j : IsSpace(s[k])
        /\ j = Len(s) \/ ~IsSpace(s[j + 1])

\* re.split on the non-overlapping matches ms (a set of <<first, last>>), taken
\* leftmost first from position pos
RECURSIVE SplitFrom(_, _, _)
SplitFrom(s, pos, ms) ==
    LET ahead == {m \in ms : m[1] >= pos}
    IN IF ahead = {} THEN <<SubSeq(s, pos, Len(s))>>
       ELSE LET first == MinOf({m[1] : m \in ahead})
                m == CHOOSE x \in ahead : x[1] = first
            IN <<SubSeq(s, pos, first - 1)>> \o SplitFrom(s, m[2] + 1, ms)

\* the matches of r'\n\s*\n': a newline, then the longest whitespace run that
\* still ends in a newline
ParagraphBreaks(s) ==
    {<<i, MaxOf({j \in (i + 1)..RunEnd(s, i) : s[j] = 10})>> :
        i \in {k \in 1..Len(s) :
                 s[k] = 10 /\ \E j \in (k + 1)..RunEnd(s, k) : s[j] = 10}}

\* lines 57-58
SplitParagraphs(s) ==
    LET raw == SplitFrom(s, 1, ParagraphBreaks(s))
        stripped == [i \in 1..Len(raw) |-> Strip(raw[i])]
    IN SelectSeq(stripped, LAMBDA p : p # <<>>)

\* the matches of r'(?<=[.!?])\s+'
SentenceBreaks(s) ==
    {<<i, RunEnd(s, i)>> :
        i \in {k \in 2..Len(s) : IsSpace(s[k]) /\ s[k - 1] \in {46, 33, 63}}}

\* line 90, also line 312
SplitSentences(s) == SplitFrom(s, 1, SentenceBreaks(s))

\* the test of line 97
ChunkIsFull(current_length, sentence, current_chunk) ==
    current_length + Len(sentence) > max_length /\ current_chunk # <<>>

\* lines 91-107: acc = [chunks, current_chunk, current_length]
RECURSIVE PackSentences(_, _)
PackSentences(sentences, acc) ==
    IF sentences = <<>>
    THEN IF acc.current_chunk # <<>>
         THEN Append(acc.chunks, Join(acc.current_chunk, <<32>>))
         ELSE acc.chunks
    ELSE LET sentence == sentences[1]
         IN IF ChunkIsFull(acc.current_length, sentence, acc.current_chunk)
            THEN PackSentences(Tail(sentences),
                    [chunks |-> Append(acc.chunks, Join(acc.current_chunk, <<32>>)),
                     current_chunk |-> <<sentence>>,
                     current_length |-> Len(sentence)])
            ELSE PackSentences(Tail(sentences),
                    [chunks |-> acc.chunks,
                     current_chunk |-> Append(acc.current_chunk, sentence),
                     current_length |-> acc.current_length + Len(sentence)])

\* lines 91-104 without the last chunk of lines 106-107
ChunksOf_WithoutLast(s) ==
    LET packed == PackSentences(SplitSentences(s),
                      [chunks |-> <<>>, current_chunk |-> <<>>, current_length |-> 0])
    IN SubSeq(packed, 1, Len(packed) - 1)

\* lines 87-107
ChunksOf(s) ==
    PackSentences(SplitSentences(s),
                  [chunks |-> <<>>, current_chunk |-> <<>>, current_length |-> 0])

\* re.IGNORECASE on ASCII letters
Lower(c) == IF IsUpperChar(c) THEN c + 32 ELSE c
\* str.upper() character by character, for the uppercasing provider stub
Upper(s) == [i \in 1..Len(s) |-> IF IsLowerChar(s[i]) THEN s[i] - 32 ELSE s[i]]

\* the regex class \w: letters, digits, underscore, non-ASCII letters
IsWordChar(c) == IsAsciiLetter(c) \/ IsDigitChar(c) \/ c = 95 \/ c >= 192
WordAt(s, i) == i \in 1..Len(s) /\ IsWordChar(s[i])
\* \b between index i-1 and index i
Boundary(s, i) == WordAt(s, i - 1) # WordAt(s, i)

\* self.translation_dictionaries (lines 20-28), in insertion order
\* "Hello": "Hola", "Document": "Documento", "Translation": "Traducci..n",
\* "File": "Archivo", "Text": "Texto", "Language": "Idioma"
translation_dictionaries ==
    [es |-> << <<<<72,101,108,108,111>>, <<72,111,108,97>>>>,
               <<<<68,111,99,117,109,101,110,116>>,
                 <<68,111,99,117,109,101,110,116,111>>>>,
               <<<<84,114,97,110,115,108,97,116,105,111,110>>,
                 <<84,114,97,100,117,99,99,105,8730,8805,110>>>>,
               <<<<70,105,108,101>>, <<65,114,99,104,105,118,111>>>>,
               <<<<84,101,120,116>>, <<84,101,120,116,111>>>>,
               <<<<76,97,110,103,117,97,103,101>>, <<73,100,105,111,109,97>>>> >>]

\* the matches of r'\b' + re.escape(eng) + r'\b' with re.IGNORECASE
WordMatches(s, eng) ==
    {<<i, i + Len(eng) - 1>> :
        i \in {k \in 1..(Len(s) - Len(eng) + 1) :
                 /\ \A j \in 1..Len(eng) : Lower(s[k + j - 1]) = Lower(eng[j])
                 /\ Boundary(s, k)
                 /\ Boundary(s, k + Len(eng))}}

\* pattern.sub(trans, translated_text), line 162
SubWord(s, eng, trans) == Join(SplitFrom(s, 1, WordMatches(s, eng)), trans)

RECURSIVE SubAll(_, _)
SubAll(s, dictionary) ==
    IF dictionary = <<>> THEN s
    ELSE SubAll(SubWord(s, dictionary[1][1], dictionary[1][2]), Tail(dictionary))

\* lines 137-167
fallback_dictionary_translation(text, lang) ==
    IF lang \notin DOMAIN translation_dictionaries THEN text
    ELSE SubAll(text, translation_dictionaries[lang])

\* what the provider stub answers to a call that succeeds
ProviderAnswer(stub, s) == IF stub = "upper" THEN Upper(s) ELSE s

\* line 76
JoinParagraphs_SingleNewline(ps) == Join(ps, <<10>>)
JoinParagraphs(ps) == Join(ps, <<10, 10>>)

\* lines 129-135: what is returned once every attempt has failed
FallbackResult_Empty(text, lang) == <<>>
FallbackResult_Original(text, lang) == text
FallbackResult(text, lang) ==
    LET substituted == fallback_dictionary_translation(text, lang)
    IN IF substituted # text THEN substituted ELSE text

\* the skip test of line 68
SkipsParagraph(p) == Len(p) < 3 \/ IsDigit(p)

-----------------------------------------------------------------------------
(* The layout fitter: adjust_font_size and calculate_text_wrap, lines 296-383 *)
(* A Python float is an IEEE 754 binary64 number. A float that is not       *)
(* negative is [m, e] for m * 2^e, with 2^52 <= m < 2^53 written as four    *)
(* digits to base 2^14, lowest first, or with m = <<>> for 0.0.             *)

\* (a * b + c * 2^sh) / d * 2^e0 rounded to the nearest float, ties to even,
\* as every float operation rounds its exact result; a, b, c, d are natural
\* numbers as digit sequences to base 2^14, lowest first, d not zero
Rounded(a, b, c, sh, d, e0) ==
    LET \* the element of a set of one element: what stands in the set is
        \* computed once, before it is used
        The(S) == CHOOSE v \in S : TRUE
        RECURSIVE OfInt(_)
        OfInt(n) == IF n = 0 THEN <<>> ELSE <<n % 16384>> \o OfInt(n \div 16384)
        RECURSIVE Trim(_)
        Trim(x) ==
            IF x = <<>> \/ x[Len(x)] # 0 THEN x
            ELSE Trim(SubSeq(x, 1, Len(x) - 1))
        RECURSIVE BitsOf(_)
        BitsOf(n) == IF n = 0 THEN 0 ELSE 1 + BitsOf(n \div 2)
        BitLen(x) == IF x = <<>> THEN 0 ELSE 14 * (Len(x) - 1) + BitsOf(x[Len(x)])
        \* x * k + carry for an integer k
        RECURSIVE MulSmall(_, _, _)
        MulSmall(x, k, carry) ==
            IF x = <<>> THEN OfInt(carry)
            ELSE LET t == x[1] * k + carry
                 IN <<t % 16384>> \o MulSmall(Tail(x), k, t \div 16384)
        RECURSIVE Add(_, _, _)
        Add(x, y, carry) ==
            IF x = <<>> /\ y = <<>> THEN OfInt(carry)
            ELSE LET t == (IF x = <<>> THEN 0 ELSE x[1])
                            + (IF y = <<>> THEN 0 ELSE y[1]) + carry
                 IN <<t % 16384>> \o Add(IF x = <<>> THEN x ELSE Tail(x),
                                        IF y = <<>> THEN y ELSE Tail(y),
                                        t \div 16384)
        \* x - y - borrow for x >= y + borrow
        RECURSIVE Sub(_, _, _)
        Sub(x, y, borrow) ==
            IF x = <<>> THEN <<>>
            ELSE LET t == x[1] - (IF y = <<>> THEN 0 ELSE y[1]) - borrow
                     ty == IF y = <<>> THEN y ELSE Tail(y)
                 IN IF t < 0 THEN <<t + 16384>> \o Sub(Tail(x), ty, 1)
                    ELSE <<t>> \o Sub(Tail(x), ty, 0)
        RECURSIVE LessFrom(_, _, _)
        LessFrom(x, y, i) ==
            IF i = 0 THEN FALSE
            ELSE IF x[i] # y[i] THEN x[i] < y[i] ELSE LessFrom(x, y, i - 1)
        Less(x, y) ==
            IF Len(x) # Len(y) THEN Len(x) < Len(y) ELSE LessFrom(x, y, Len(x))
        RECURSIVE Mul(_, _)
        Mul(x, y) ==
            IF x = <<>> \/ y = <<>> THEN <<>>
            ELSE Add(MulSmall(y, x[1], 0),
                     LET r == Mul(Tail(x), y) IN IF r = <<>> THEN r ELSE <<0>> \o r,
                     0)
        \* x * 2^k
        Shl(x, k) ==
            IF x = <<>> THEN x
            ELSE [i \in 1..(k \div 14) |-> 0] \o MulSmall(x, 2^(k % 14), 0)
        \* x = q * k + r for a small k, from the top digit down
        RECURSIVE DivSmallFrom(_, _, _, _)
        DivSmallFrom(x, k, i, r) ==
            IF i = 0 THEN [q |-> <<>>, r |-> r]
            ELSE LET t == r * 16384 + x[i]
                     rest == DivSmallFrom(x, k, i - 1, t % k)
                 IN [q |-> Append(rest.q, t \div k), r |-> rest.r]
        \* x \div 2^k, and whether a bit was lost
        Shr(x, k) ==
            LET w == k \div 14
                hi == IF w >= Len(x) THEN <<>> ELSE SubSeq(x, w + 1, Len(x))
                ds == DivSmallFrom(hi, 2^(k % 14), Len(hi), 0)
            IN [q |-> Trim(ds.q),
                sticky |-> ds.r # 0 \/ \E i \in 1..Min2(w, Len(x)) : x[i] # 0]
        \* the digit q with y * q <= x < y * (q + 1), for x < y * 2^14 and the top
        \* digit of y at least 2^13: the quotient of the top digits is q, q + 1
        \* or q + 2
        Digit(x, y) ==
            IF Len(x) < Len(y) THEN 0
            ELSE LET top == IF Len(x) > Len(y)
                            THEN x[Len(x)] * 16384 + x[Len(x) - 1]
                            ELSE x[Len(x)]
                     qh == Min2(16383, top \div y[Len(y)])
                 IN IF ~Less(x, MulSmall(y, qh, 0)) THEN qh
                    ELSE IF ~Less(x, MulSmall(y, qh - 1, 0)) THEN qh - 1
                    ELSE qh - 2
        \* long division of x by y from digit i down; q and r are the quotient
        \* and the remainder so far
        RECURSIVE DivFrom(_, _, _, _, _)
        DivFrom(x, y, i, q, r) ==
            IF i = 0 THEN [q |-> q, r |-> r]
            ELSE The({The({The({DivFrom(x, y, i - 1, <<qd>> \o q, r2) :
                                  r2 \in {Trim(Sub(r1, MulSmall(y, qd, 0), 0))}}) :
                             qd \in {Digit(r1, y)}}) :
                        r1 \in {Trim(<<x[i]>> \o r)}})
        Norm(x) == IF x = <<>> THEN x ELSE Trim(MulSmall(x, 1, 0))
        \* m of at most 54 bits as a float, times 2^e
        Finish(m, e) ==
            IF BitLen(m) > 53 THEN [m |-> Shr(m, 1).q, e |-> e + 1]
            ELSE [m |-> m, e |-> e]
        \* cut, the bits rest below it, of which half is the highest, rounded
        RoundCut(cut, rest, half, sticky, e) ==
            IF rest > half \/ (rest = half /\ (sticky \/ cut[1] % 2 = 1))
            THEN The({Finish(m, e) : m \in {MulSmall(cut, 1, 1)}})
            ELSE Finish(cut, e)
        \* q of 54 or 55 bits, inexact if sticky, rounded to 53 bits
        Round(q, sticky, drop, e) ==
            The({RoundCut(cut, q[1] % 2^drop, 2^(drop - 1), sticky, e + drop) :
                    cut \in {Shr(q, drop).q}})
        RoundQuotient(q, sticky, e) == Round(q, sticky, BitLen(q) - 53, e)
        \* x / y by long division, the top digit of y at least 2^13
        Divide(x, y, k, e) ==
            The({The({RoundQuotient(q, dm.r # <<>>, e) : q \in {Trim(dm.q)}}) :
                    dm \in {DivFrom(x, y, Len(x) - k, <<>>,
                                    SubSeq(x, Len(x) - k + 1, Len(x)))}})
        \* n / dd * 2^e0, the quotient taken to 54 or 55 bits by the shift s
        Quotient(n, dd, s, t) ==
            IF dd = <<1>>
            THEN IF s >= 0
                 THEN The({RoundQuotient(q, FALSE, e0 - s) : q \in {Shl(n, s)}})
                 ELSE The({RoundQuotient(qr.q, qr.sticky, e0 - s) :
                              qr \in {Shr(n, 0 - s)}})
            ELSE The({Divide(x, y, Min2(Len(x), Len(y) - 1), e0 - s) :
                         x \in {Shl(n, t + (IF s >= 0 THEN s ELSE 0))},
                         y \in {Shl(dd, t + (IF s >= 0 THEN 0 ELSE 0 - s))}})
        Start(n, dd) ==
            IF dd = <<>> \/ n = <<>> THEN [m |-> <<>>, e |-> 0]
            ELSE The({Quotient(n, dd, s, t) :
                         s \in {54 - (BitLen(n) - BitLen(dd))},
                         t \in {14 - BitsOf(dd[Len(dd)])}})
    IN The({Start(n, dd) :
               n \in {Add(Mul(Norm(a), Norm(b)), Shl(Norm(c), sh), 0)},
               dd \in {Norm(d)}})

\* float(n) / float(d) for integers n >= 0, d > 0, and the literal n/d
FOfRatio(n, d) == Rounded(<<n>>, <<1>>, <<>>, 0, <<d>>, 0)
\* x * y
FMul(x, y) ==
    CHOOSE r \in {IF u.m = <<>> \/ v.m = <<>> THEN [m |-> <<>>, e |-> 0]
                  ELSE Rounded(u.m, v.m, <<>>, 0, <<1>>, u.e + v.e) :
                     u \in {x}, v \in {y}} : TRUE
\* x / y for y not 0.0
FDiv(x, y) ==
    CHOOSE r \in {IF u.m = <<>> THEN u
                  ELSE Rounded(u.m, <<1>>, <<>>, 0, v.m, u.e - v.e) :
                     u \in {x}, v \in {y}} : TRUE
\* x + y
FAdd(x, y) ==
    CHOOSE r \in {IF u.m = <<>> THEN v
                  ELSE IF v.m = <<>> THEN u
                  ELSE IF u.e <= v.e
                  THEN Rounded(u.m, <<1>>, v.m, v.e - u.e, <<1>>, u.e)
                  ELSE Rounded(v.m, <<1>>, u.m, u.e - v.e, <<1>>, v.e) :
                     u \in {x}, v \in {y}} : TRUE
\* x <= y
FLeq(x, y) ==
    \E u \in {x}, v \in {y} :
        IF u.m = <<>> THEN TRUE
        ELSE IF v.m = <<>> THEN FALSE
        ELSE IF u.e # v.e THEN u.e < v.e
        ELSE ~\E i \in 1..4 : v.m[i] < u.m[i] /\ \A j \in (i + 1)..4 : v.m[j] = u.m[j]

\* the exact fractions of the progress reports
RECURSIVE GCD(_, _)
GCD(a, b) == IF b = 0 THEN a ELSE GCD(b, a % b)
Frac(n, d) ==
    LET g == GCD(Abs(n), d) IN IF g = 0 THEN [n |-> n, d |-> d]
                               ELSE [n |-> n \div g, d |-> d \div g]

\* lang_factors (lines 353-362), in insertion order, in tenths
lang_factors ==
    << <<"zh-CN", 10>>, <<"zh-TW", 10>>, <<"ja", 10>>, <<"ko", 10>>,
       <<"de", 12>>, <<"ru", 11>>, <<"ar", 11>>, <<"default", 6>> >>

DefaultFactor ==
    (CHOOSE e \in {lang_factors[i] : i \in 1..Len(lang_factors)} :
        e[1] = "default")[2]

\* the loop of lines 368-371: the first entry that is not 'default', if the
\* text has a character above 1000; the loop leaves at its first hit
RECURSIVE FactorLoop(_, _, _)
FactorLoop(text, i, factor) ==
    IF i > Len(lang_factors) THEN factor
    ELSE IF lang_factors[i][1] # "default" /\ \E k \in 1..Len(text) : text[k] > 1000
    THEN lang_factors[i][2]
    ELSE FactorLoop(text, i + 1, factor)

\* lines 365-371, in tenths
WidthFactor(text) ==
    IF \E k \in 1..Len(text) : text[k] > 127
    THEN FactorLoop(text, 1, DefaultFactor)
    ELSE DefaultFactor

\* min_scale = 0.7 (line 382), in tenths
min_scale == 7

\* line 383: max(a, b) is b only when b > a
ScaledOrFloor_Min(scaled, floor) == IF FLeq(scaled, floor) THEN scaled ELSE floor
ScaledOrFloor(scaled, floor) == IF FLeq(floor, scaled) THEN scaled ELSE floor

\* lines 373-383; rect_width and original_font_size are floats with integer
\* values here
adjust_font_size(text, rect_width, original_font_size) ==
    LET size == FOfRatio(original_font_size, 1)
        approx_width == FMul(FOfRatio(Len(text) * original_font_size, 1),
                             FOfRatio(WidthFactor(text), 10))
    IN IF FLeq(approx_width, FOfRatio(rect_width, 1))
       THEN size
       ELSE ScaledOrFloor(
               FMul(size, FDiv(FOfRatio(rect_width, 1), approx_width)),
               FMul(size, FOfRatio(min_scale, 10)))

\* str.split(): the words between whitespace runs
WordsOf(s) ==
    SelectSeq(
        SplitFrom(s, 1,
            {<<i, RunEnd(s, i)>> :
                i \in {k \in 1..Len(s) :
                         IsSpace(s[k]) /\ (k = 1 \/ ~IsSpace(s[k - 1]))}}),
        LAMBDA w : w # <<>>)

\* lines 333-340 for the words of a long sentence;
\* acc = [lines, current_line, current_count]
RECURSIVE PackWords(_, _, _)
PackWords(words, acc, chars_per_line) ==
    IF words = <<>> THEN acc
    ELSE LET word == words[1]
         IN IF acc.current_count + Len(word) + 1 <= chars_per_line
            THEN PackWords(Tail(words),
                    [acc EXCEPT !.current_line = Append(@, word),
                                !.current_count = @ + Len(word) + 1],
                    chars_per_line)
            ELSE PackWords(Tail(words),
                    [lines |-> IF acc.current_line # <<>>
                               THEN Append(acc.lines, Join(acc.current_line, <<32>>))
                               ELSE acc.lines,
                     current_line |-> <<word>>,
                     current_count |-> Len(word)],
                    chars_per_line)

\* lines 317-340
RECURSIVE PackLines(_, _, _)
PackLines(sentences, acc, chars_per_line) ==
    IF sentences = <<>> THEN acc
    ELSE LET sentence == sentences[1]
         IN IF Len(sentence) <= chars_per_line
            THEN IF acc.current_count + Len(sentence) + 1 <= chars_per_line
                 THEN PackLines(Tail(sentences),
                        [acc EXCEPT !.current_line = Append(@, sentence),
                                    !.current_count = @ + Len(sentence) + 1],
                        chars_per_line)
                 ELSE PackLines(Tail(sentences),
                        [lines |-> IF acc.current_line # <<>>
                                   THEN Append(acc.lines,
                                               Join(acc.current_line, <<32>>))
                                   ELSE acc.lines,
                         current_line |-> <<sentence>>,
                         current_count |-> Len(sentence)],
                        chars_per_line)
            ELSE PackLines(Tail(sentences),
                    PackWords(WordsOf(sentence), acc, chars_per_line),
                    chars_per_line)

\* line 309: int(max_width / avg_char_width), avg_char_width = font_size * 0.6;
\* the quotient is below 2^25 where the text did not fit
CharsPerLine(font_size, max_width) ==
    LET q == FDiv(FOfRatio(max_width, 1), FMul(font_size, FOfRatio(6, 10)))
    IN IF q.m = <<>> \/ q.e < 0 - 52 THEN 0
       ELSE (q.m[3] + 16384 * q.m[4]) \div 2^(0 - 28 - q.e)

\* without the last line (lines 342-343 left out)
calculate_text_wrap_NoLast(text, font_size, max_width) ==
    IF FLeq(FMul(FOfRatio(Len(text), 1), FMul(font_size, FOfRatio(6, 10))),
            FOfRatio(max_width, 1))
    THEN <<text>>
    ELSE PackLines(SplitSentences(text),
                   [lines |-> <<>>, current_line |-> <<>>, current_count |-> 0],
                   CharsPerLine(font_size, max_width)).lines

\* lines 296-345; font_size is a float, max_width a float with an integer
\* value
calculate_text_wrap(text, font_size, max_width) ==
    IF FLeq(FMul(FOfRatio(Len(text), 1), FMul(font_size, FOfRatio(6, 10))),
            FOfRatio(max_width, 1))
    THEN <<text>>
    ELSE LET acc == PackLines(SplitSentences(text),
                              [lines |-> <<>>, current_line |-> <<>>,
                               current_count |-> 0],
                              CharsPerLine(font_size, max_width))
         IN IF acc.current_line # <<>>
            THEN Append(acc.lines, Join(acc.current_line, <<32>>))
            ELSE acc.lines

-----------------------------------------------------------------------------
(* Pages offered to the extractor *)

MaxBlocks == 3

TextAB == <<97, 98>>
TextSpace == <<32>>

Span(t, bb) == [text |-> t, bbox |-> bb, size |-> 10]

\* the geometry of the text blocks on offer
TextGeoms ==
    { <<10, 100, 60, 120>>, <<10, 125, 60, 145>>, <<10, 500, 60, 520>>,
      <<10, 100, 60, 140>>, <<10, 110, 60, 130>>, <<-50, -30, -10, -10>> }

\* a raw block with its own list of lines: [type, has_lines, bbox, mylines]
\* "full": one line with one span covering the block
\* "tail": a text span on the left and a whitespace span on the right
FullBlock(g) == [type |-> 0, has_lines |-> TRUE, bbox |-> g,
                 mylines |-> << <<Span(TextAB, g)>> >>]
TailBlock(g) == [type |-> 0, has_lines |-> TRUE, bbox |-> g,
                 mylines |-> << <<Span(TextAB, <<g[1], g[2], g[1] + 20, g[4]>>),
                                  Span(TextSpace, <<g[1] + 20, g[2], g[3], g[4]>>)>> >>]
BlankBlock == [type |-> 0, has_lines |-> TRUE, bbox |-> <<10, 300, 60, 320>>,
               mylines |-> << <<Span(TextSpace, <<10, 300, 60, 320>>)>> >>]
ImageBlock == [type |-> 1, has_lines |-> FALSE, bbox |-> <<0, 105, 200, 115>>,
               mylines |-> <<>>]

\* the last choice is a block whose one span ends in a space, "ab "
BlockChoices ==
    {FullBlock(g) : g \in TextGeoms} \cup {TailBlock(g) : g \in TextGeoms}
        \cup {BlankBlock, ImageBlock}
        \cup {[FullBlock(<<10, 110, 60, 130>>) EXCEPT
                  !.mylines = << <<Span(TextAB \o TextSpace, <<10, 110, 60, 130>>)>> >>]}

\* page.get_text("dict", sort=True) (line 197) hands the blocks over ordered by
\* bottom y, then left x
SortedAsExtracted(p) ==
    \A i \in 1..(Len(p) - 1) :
        \/ p[i].bbox[4] < p[i+1].bbox[4]
        \/ p[i].bbox[4] = p[i+1].bbox[4] /\ p[i].bbox[1] <= p[i+1].bbox[1]

\* the last page has two columns: a tall block on the left, two short blocks
\* on the right, no two of them touching
Pages ==
    {p \in UNION {[1..n -> BlockChoices] : n \in 0..MaxBlocks} : SortedAsExtracted(p)}
        \cup {<<FullBlock(<<70, 100, 120, 120>>), FullBlock(<<70, 130, 120, 150>>),
                FullBlock(<<10, 100, 60, 200>>)>>}

\* the dicts and the heap of a page: block i owns list object i
RawBlocks(p) ==
    [i \in 1..Len(p) |-> [type |-> p[i].type, has_lines |-> p[i].has_lines,
                          bbox |-> p[i].bbox, lines |-> i]]
RawHeap(p) == [i \in 1..Len(p) |-> p[i].mylines]

-----------------------------------------------------------------------------
(* The merge pass and the unit extraction of one page, step by step *)

MergeInit ==
    /\ m_pc = "begin"
    /\ \E p \in Pages : blocks = RawBlocks(p) /\ heap = RawHeap(p)
    /\ sorted_blocks = <<>>
    /\ m_idx = 0
    /\ merged_blocks = <<>>
    /\ has_current = FALSE
    /\ current_block = NoBlock
    /\ current_y = 0
    /\ m_trace = <<>>
    /\ text_blocks = <<>>

\* lines 243-252
MergeBegin ==
    /\ UNCHANGED <<ttVars, fontVars, pdfVars>>
    /\ m_pc = "begin"
    /\ IF blocks = <<>>
       THEN m_pc' = "merged" /\ sorted_blocks' = <<>>
       ELSE m_pc' = "loop" /\ sorted_blocks' = SortedByTop(blocks)
    /\ m_idx' = 1
    /\ UNCHANGED <<blocks, heap, merged_blocks, has_current, current_block,
                   current_y, m_trace, text_blocks>>

\* one iteration of the loop of lines 254-288
MergeStep ==
    /\ UNCHANGED <<ttVars, fontVars, pdfVars>>
    /\ m_pc = "loop"
    /\ m_idx <= Len(sorted_blocks)
    /\ LET st == MergeOne([merged |-> merged_blocks, has_current |-> has_current,
                           current_block |-> current_block,
                           current_y |-> current_y, heap |-> heap,
                           did |-> "none"],
                          blocks[sorted_blocks[m_idx]])
       IN /\ merged_blocks' = st.merged
          /\ has_current' = st.has_current
          /\ current_block' = st.current_block
          /\ current_y' = st.current_y
          /\ heap' = st.heap
          /\ m_trace' = Append(m_trace, st.did)
    /\ m_idx' = m_idx + 1
    /\ UNCHANGED <<m_pc, blocks, sorted_blocks, text_blocks>>

\* lines 290-294
MergeEnd ==
    /\ UNCHANGED <<ttVars, fontVars, pdfVars>>
    /\ m_pc = "loop"
    /\ m_idx > Len(sorted_blocks)
    /\ merged_blocks' = MergeClose([merged |-> merged_blocks,
                                    has_current |-> has_current,
                                    current_block |-> current_block])
    /\ m_pc' = "merged"
    /\ UNCHANGED <<blocks, heap, sorted_blocks, m_idx, has_current,
                   current_block, current_y, m_trace, text_blocks>>

\* lines 202-233 for the page
AnalyzePage ==
    /\ UNCHANGED <<ttVars, fontVars, pdfVars>>
    /\ m_pc = "merged"
    /\ text_blocks' = UnitsOf(merged_blocks, heap, 0)
    /\ m_pc' = "analyzed"
    /\ UNCHANGED <<blocks, heap, sorted_blocks, m_idx, merged_blocks,
                   has_current, current_block, current_y, m_trace>>

MergeNext == MergeBegin \/ MergeStep \/ MergeEnd \/ AnalyzePage

-----------------------------------------------------------------------------
(* Texts offered to translate_text *)

MaxParagraphs == 2
MaxSentences == 2

Hello == <<72, 101, 108, 108, 111>>
\* "Hello ab", "123", "ab", "Helloab"
ParaBodies == {Hello \o <<32, 97, 98>>, <<49, 50, 51>>, <<97, 98>>,
               Hello \o <<97, 98>>}
\* "\n\n", "\n \n\n", and "\n", which separates no paragraphs
ParaSeps == {<<10, 10>>, <<10, 32, 10, 10>>, <<10>>}
\* what stands before and after the text: nothing, or " " and "\n"
Pads == {<< <<>>, <<>> >>, << <<32>>, <<10>> >>}

RECURSIVE Interleave(_, _)
Interleave(bodies, seps) ==
    IF Len(bodies) = 1 THEN bodies[1]
    ELSE bodies[1] \o seps[1] \o Interleave(Tail(bodies), Tail(seps))

ShortTexts ==
    UNION {{pad[1] \o Interleave(bodies, seps) \o pad[2] :
               bodies \in [1..n -> ParaBodies], seps \in [1..(n - 1) -> ParaSeps],
               pad \in Pads} : n \in 1..MaxParagraphs}

\* "", " ", "\n\n"
BlankTexts == {<<>>, <<32>>, <<10, 10>>}

\* a sentence of n characters: letters and a final full stop
Sentence(n) == [i \in 1..n |-> IF i = n THEN 46 ELSE 97]
SentenceLens == {2000, 4001}
LongTexts ==
    UNION {{Join([i \in 1..n |-> Sentence(lens[i])], <<32>>) \o trail :
               lens \in [1..n -> SentenceLens], trail \in {<<>>, <<32>>}} :
           n \in 1..MaxSentences}

\* two paragraphs, the first of 4002 characters: two sentences with a line
\* break between them
LongParagraphText ==
    Sentence(2000) \o <<10>> \o Sentence(2001) \o <<10, 10>> \o Hello \o <<32, 97, 98>>

\* one paragraph of 4002 characters: two sentences with a line break and a
\* space between them
LongLineBreakText == Sentence(2000) \o <<10, 32>> \o Sentence(2000)

TextChoices ==
    ShortTexts \cup BlankTexts \cup LongTexts \cup {LongParagraphText, LongLineBreakText}
\* "es" has a substitution table, "fr" has none
LangChoices == {"es", "fr"}
StubChoices == {"identity", "upper"}

-----------------------------------------------------------------------------
(* translate_text, step by step *)

Event(kind, text, ok, dur) ==
    [kind |-> kind, text |-> text, ok |-> ok, dur |-> dur,
     attempt |-> attempt, para |-> IF tt_depth = 1 THEN tt_pidx ELSE 0]

\* translator.translate(s) (lines 114, 121)
CallEvent(s, ok) == Event("call", s, ok, 0)
\* line 125 without the time.sleep(1) of line 126
FailEvents_NoSleep == <<Event("error", <<>>, FALSE, 0)>>
\* st.error of line 125 and time.sleep(1) of line 126, in tenths of a second
FailEvents == <<Event("error", <<>>, FALSE, 0), Event("sleep", <<>>, FALSE, 10)>>
\* no time passes at line 117
RateSleep_Zero == Event("sleep", <<>>, TRUE, 0)
\* time.sleep(0.5) of line 117
RateSleep == Event("sleep", <<>>, TRUE, 5)
\* the call of the substitution table, line 129
TableLookup(s) == Event("fallback", s, FALSE, 0)
\* st.warning of line 134
KeepWarning == Event("warning", <<>>, FALSE, 0)

TTIdle ==
    /\ tt_pc = "idle"
    /\ provider = "up"
    /\ tt_text = <<>>
    /\ tt_lang = "es"
    /\ tt_stub = "identity"
    /\ tt_depth = 0
    /\ tt_cur = <<>>
    /\ paragraphs = <<>>
    /\ tt_pidx = 0
    /\ translated_paragraphs = <<>>
    /\ attempt = 0
    /\ chunks = <<>>
    /\ tt_cidx = 0
    /\ translated_chunks = <<>>
    /\ tt_result = <<>>
    /\ tt_log = <<>>

\* whether a provider call can succeed (TRUE) or raise (FALSE)
ProviderOutcomes ==
    IF provider = "up" THEN {TRUE}
    ELSE IF provider = "down" THEN {FALSE} ELSE BOOLEAN

\* the state on entry of translate_text(text, lang) with the provider stub
TTCall(text, lang, stub, prov) ==
    /\ tt_pc = "start"
    /\ provider = prov
    /\ tt_text = text
    /\ tt_lang = lang
    /\ tt_stub = stub
    /\ tt_depth = 0
    /\ tt_cur = text
    /\ paragraphs = <<>>
    /\ tt_pidx = 0
    /\ translated_paragraphs = <<>>
    /\ attempt = 0
    /\ chunks = <<>>
    /\ tt_cidx = 0
    /\ translated_chunks = <<>>
    /\ tt_result = <<>>
    /\ tt_log = <<>>

\* translate_text(text, lang) is called: the next state is its entry
TTEnter(text, lang) ==
    /\ tt_pc' = "start"
    /\ tt_text' = text
    /\ tt_lang' = lang
    /\ tt_depth' = 0
    /\ tt_cur' = text
    /\ paragraphs' = <<>>
    /\ tt_pidx' = 0
    /\ translated_paragraphs' = <<>>
    /\ attempt' = 0
    /\ chunks' = <<>>
    /\ tt_cidx' = 0
    /\ translated_chunks' = <<>>
    /\ tt_result' = <<>>
    /\ tt_log' = <<>>
    /\ UNCHANGED <<tt_stub, provider>>

\* a call returns v: to the loop of line 72 or to the outer caller
TTReturn(v) ==
    IF tt_depth = 1
    THEN /\ translated_paragraphs' = Append(translated_paragraphs, v)
         /\ tt_pidx' = tt_pidx + 1
         /\ tt_depth' = 0
         /\ tt_pc' = "paras"
         /\ UNCHANGED tt_result
    ELSE /\ tt_result' = v
         /\ tt_pc' = "done"
         /\ UNCHANGED <<translated_paragraphs, tt_pidx, tt_depth>>

\* lines 51-64 of the outer call (preserve_paragraphs=True)
TTStart ==
    /\ UNCHANGED <<mergeVars, fontVars, pdfVars>>
    /\ tt_pc = "start"
    /\ IF IsBlank(tt_text)
       THEN /\ tt_result' = <<>>
            /\ tt_pc' = "done"
            /\ UNCHANGED <<paragraphs, tt_pidx>>
       ELSE LET ps == SplitParagraphs(tt_text)
            IN /\ paragraphs' = ps
               /\ UNCHANGED tt_result
               /\ IF ps = <<>>
                  THEN tt_pc' = "done" /\ UNCHANGED tt_pidx
                  ELSE IF Len(ps) > 1
                  THEN tt_pc' = "paras" /\ tt_pidx' = 1
                  ELSE tt_pc' = "attempt" /\ UNCHANGED tt_pidx
    /\ UNCHANGED <<tt_text, tt_lang, tt_stub, provider, tt_depth, tt_cur,
                   translated_paragraphs, attempt, chunks, tt_cidx,
                   translated_chunks, tt_log>>

\* the loop of lines 66-73 with one count of attempts for all paragraphs
TTParagraph_SharedBudget ==
    /\ UNCHANGED <<mergeVars, fontVars, pdfVars>>
    /\ tt_pc = "paras"
    /\ tt_pidx <= Len(paragraphs)
    /\ LET paragraph == paragraphs[tt_pidx]
       IN IF SkipsParagraph(paragraph)
          THEN /\ translated_paragraphs' = Append(translated_paragraphs, paragraph)
               /\ tt_pidx' = tt_pidx + 1
               /\ UNCHANGED <<tt_pc, tt_depth, tt_cur, attempt>>
          ELSE /\ tt_depth' = 1
               /\ tt_cur' = paragraph
               /\ attempt' = attempt
               /\ tt_pc' = "attempt"
               /\ UNCHANGED <<translated_paragraphs, tt_pidx>>
    /\ UNCHANGED <<tt_text, tt_lang, tt_stub, provider, paragraphs, chunks, tt_cidx,
                   translated_chunks, tt_result, tt_log>>

\* one iteration of the loop of lines 66-73: a skipped paragraph, or the call
\* translate_text(paragraph, target_language, max_retries, False)
TTParagraph ==
    /\ UNCHANGED <<mergeVars, fontVars, pdfVars>>
    /\ tt_pc = "paras"
    /\ tt_pidx <= Len(paragraphs)
    /\ LET paragraph == paragraphs[tt_pidx]
       IN IF SkipsParagraph(paragraph)
          THEN /\ translated_paragraphs' = Append(translated_paragraphs, paragraph)
               /\ tt_pidx' = tt_pidx + 1
               /\ UNCHANGED <<tt_pc, tt_depth, tt_cur, attempt>>
          ELSE /\ tt_depth' = 1
               /\ tt_cur' = paragraph
               /\ attempt' = 0
               /\ tt_pc' = "attempt"
               /\ UNCHANGED <<translated_paragraphs, tt_pidx>>
    /\ UNCHANGED <<tt_text, tt_lang, tt_stub, provider, paragraphs, chunks, tt_cidx,
                   translated_chunks, tt_result, tt_log>>

\* line 76
TTParagraphsDone ==
    /\ UNCHANGED <<mergeVars, fontVars, pdfVars>>
    /\ tt_pc = "paras"
    /\ tt_pidx > Len(paragraphs)
    /\ tt_result' = JoinParagraphs(translated_paragraphs)
    /\ tt_pc' = "done"
    /\ UNCHANGED <<tt_text, tt_lang, tt_stub, provider, tt_depth, tt_cur, paragraphs,
                   tt_pidx, translated_paragraphs, attempt, chunks, tt_cidx,
                   translated_chunks, tt_log>>

\* an attempt on a text of at most max_length characters: lines 79-87, 121-126
TTCallWhole ==
    /\ UNCHANGED <<mergeVars, fontVars, pdfVars>>
    /\ tt_pc = "attempt"
    /\ attempt < max_retries
    /\ Len(tt_cur) <= max_length
    /\ \E ok \in ProviderOutcomes :
          IF ok
          THEN /\ tt_log' = Append(tt_log, CallEvent(tt_cur, TRUE))
               /\ TTReturn(ProviderAnswer(tt_stub, tt_cur))
               /\ UNCHANGED attempt
          ELSE /\ tt_log' = Append(tt_log, CallEvent(tt_cur, FALSE)) \o FailEvents
               /\ attempt' = attempt + 1
               /\ UNCHANGED <<tt_pc, tt_depth, tt_pidx, translated_paragraphs,
                              tt_result>>
    /\ UNCHANGED <<tt_text, tt_lang, tt_stub, provider, tt_cur, paragraphs, chunks,
                   tt_cidx, translated_chunks>>

\* lines 87-110 with translated_chunks surviving a failed attempt
TTBeginChunks_KeepChunks ==
    /\ UNCHANGED <<mergeVars, fontVars, pdfVars>>
    /\ tt_pc = "attempt"
    /\ attempt < max_retries
    /\ Len(tt_cur) > max_length
    /\ chunks' = ChunksOf(tt_cur)
    /\ tt_cidx' = 1
    /\ tt_pc' = "chunks"
    /\ UNCHANGED <<tt_text, tt_lang, tt_stub, provider, tt_depth, tt_cur, paragraphs,
                   tt_pidx, translated_paragraphs, attempt, tt_result, tt_log,
                   translated_chunks>>

\* an attempt on a longer text builds the chunks: lines 87-110
TTBeginChunks ==
    /\ UNCHANGED <<mergeVars, fontVars, pdfVars>>
    /\ tt_pc = "attempt"
    /\ attempt < max_retries
    /\ Len(tt_cur) > max_length
    /\ chunks' = ChunksOf(tt_cur)
    /\ translated_chunks' = <<>>
    /\ tt_cidx' = 1
    /\ tt_pc' = "chunks"
    /\ UNCHANGED <<tt_text, tt_lang, tt_stub, provider, tt_depth, tt_cur, paragraphs,
                   tt_pidx, translated_paragraphs, attempt, tt_result, tt_log>>

\* one iteration of the loop of lines 111-117
TTChunk ==
    /\ UNCHANGED <<mergeVars, fontVars, pdfVars>>
    /\ tt_pc = "chunks"
    /\ tt_cidx <= Len(chunks)
    /\ LET chunk == chunks[tt_cidx]
       IN IF IsBlank(chunk)
          THEN /\ tt_cidx' = tt_cidx + 1
               /\ UNCHANGED <<tt_pc, attempt, translated_chunks, tt_log>>
          ELSE \E ok \in ProviderOutcomes :
                 IF ok
                 THEN /\ translated_chunks' =
                            Append(translated_chunks, ProviderAnswer(tt_stub, chunk))
                      /\ tt_log' = Append(Append(tt_log, CallEvent(chunk, TRUE)),
                                          RateSleep)
                      /\ tt_cidx' = tt_cidx + 1
                      /\ UNCHANGED <<tt_pc, attempt>>
                 ELSE /\ tt_log' = Append(tt_log, CallEvent(chunk, FALSE)) \o FailEvents
                      /\ attempt' = attempt + 1
                      /\ tt_pc' = "attempt"
                      /\ UNCHANGED <<tt_cidx, translated_chunks>>
    /\ UNCHANGED <<tt_text, tt_lang, tt_stub, provider, tt_depth, tt_cur, paragraphs,
                   tt_pidx, translated_paragraphs, chunks, tt_result>>

\* line 119
TTChunksDone ==
    /\ UNCHANGED <<mergeVars, fontVars, pdfVars>>
    /\ tt_pc = "chunks"
    /\ tt_cidx > Len(chunks)
    /\ TTReturn(Join(translated_chunks, <<32>>))
    /\ UNCHANGED <<tt_text, tt_lang, tt_stub, provider, tt_cur, paragraphs, attempt,
                   chunks, tt_cidx, translated_chunks, tt_log>>

\* lines 128-135, once the loop of line 79 has run out
TTFallback ==
    /\ UNCHANGED <<mergeVars, fontVars, pdfVars>>
    /\ tt_pc = "attempt"
    /\ attempt >= max_retries
    /\ TTReturn(FallbackResult(tt_cur, tt_lang))
    /\ IF fallback_dictionary_translation(tt_cur, tt_lang) # tt_cur
       THEN tt_log' = Append(tt_log, TableLookup(tt_cur))
       ELSE tt_log' = Append(Append(tt_log, TableLookup(tt_cur)), KeepWarning)
    /\ UNCHANGED <<tt_text, tt_lang, tt_stub, provider, tt_cur, paragraphs, attempt,
                   chunks, tt_cidx, translated_chunks>>

-----------------------------------------------------------------------------
(* Inputs of the layout fitter, and its two calls in the order of lines 462-465 *)

MaxFontLen == 4

\* "a", " ", ".", e-acute (above 127), Cyrillic de (above 1000)
FontChars == {97, 32, 46, 233, 1076}
\* all short texts, and "a a a. a a", "aaaaaaaaa a", "a a a a. ", "a. a. a. a."
FontTexts ==
    UNION {[1..n -> FontChars] : n \in 0..MaxFontLen}
        \cup { <<97, 32, 97, 32, 97, 46, 32, 97, 32, 97>>,
               <<97, 97, 97, 97, 97, 97, 97, 97, 97, 32, 97>>,
               <<97, 32, 97, 32, 97, 32, 97, 46, 32>>,
               <<97, 46, 32, 97, 46, 32, 97, 46, 32, 97, 46>> }
FontWidths == {0, 5, 10, 20, 21, 30, 100}
FontSizes == {1, 10, 12}

FontIdle ==
    /\ f_pc = "off"
    /\ f_text = <<>>
    /\ f_width = 0
    /\ f_size = 1
    /\ f_adjusted = FOfRatio(1, 1)
    /\ f_lines = <<>>

FontInit ==
    /\ f_pc = "adjust"
    /\ f_text \in FontTexts
    /\ f_width \in FontWidths
    /\ f_size \in FontSizes
    /\ f_adjusted = FOfRatio(1, 1)
    /\ f_lines = <<>>

\* line 462
FontAdjust ==
    /\ UNCHANGED <<mergeVars, ttVars, pdfVars>>
    /\ f_pc = "adjust"
    /\ f_adjusted' = adjust_font_size(f_text, f_width, f_size)
    /\ f_pc' = "wrap"
    /\ UNCHANGED <<f_text, f_width, f_size, f_lines>>

\* line 465
FontWrap ==
    /\ UNCHANGED <<mergeVars, ttVars, pdfVars>>
    /\ f_pc = "wrap"
    /\ f_lines' = calculate_text_wrap(f_text, f_adjusted, f_width)
    /\ f_pc' = "done"
    /\ UNCHANGED <<f_text, f_width, f_size, f_adjusted>>

FontNext == FontAdjust \/ FontWrap

-----------------------------------------------------------------------------
(* Documents offered to translate_pdf *)

MaxPages == 2
MaxFaults == 1

Blk(g, t) == [type |-> 0, has_lines |-> TRUE, bbox |-> g,
              mylines |-> << <<Span(t, g)>> >>]

HelloAb == Hello \o <<32, 97, 98>>
\* one unit "Hello ab"
PageHello == <<Blk(<<10, 100, 60, 120>>, HelloAb)>>
\* "42"; "Hello" in a box 5 wide; "-- +"; "Hello ab" in a box 5 high
PageSkips == <<Blk(<<10, 100, 60, 120>>, <<52, 50>>),
               Blk(<<10, 200, 15, 220>>, Hello),
               Blk(<<10, 300, 60, 320>>, <<45, 45, 32, 43>>),
               Blk(<<10, 400, 60, 405>>, HelloAb)>>
\* an image, no text
PageImage == <<ImageBlock>>
\* "Hello ab." and "Hello ab ab", 2 units apart: they merge into one unit
\* 12 high, which wraps to two lines
PageWrap == <<Blk(<<10, 100, 60, 105>>, HelloAb \o <<46>>),
              Blk(<<10, 107, 60, 112>>, HelloAb \o <<32, 97, 98>>)>>
\* "Hello ab. Hello ab ab" in a box 40 high: several lines fit
PageTall == <<Blk(<<10, 100, 60, 140>>,
                  HelloAb \o <<46, 32>> \o HelloAb \o <<32, 97, 98>>)>>
\* a translatable unit, a skipped one, a translatable one
PageMixed == <<Blk(<<10, 100, 60, 120>>, HelloAb),
               Blk(<<10, 200, 60, 220>>, <<52, 50>>),
               Blk(<<10, 300, 60, 320>>, Hello \o <<97, 98>>)>>

\* one unit of 4001 characters, two sentences: translated in chunks
PageLong == <<Blk(<<10, 100, 60, 120>>,
                  Sentence(2000) \o <<32>> \o Sentence(2000))>>

PdfPages == {PageHello, PageSkips, PageImage, PageWrap, PageMixed}

\* up to MaxPages of the short pages, the long page alone, the tall page alone
\* and after another page, a page with "Hello ab" of font size 12 in a box
\* 100 wide and 10 high, and bytes that fitz.open cannot parse
Docs ==
    {[parsable |-> TRUE, pages |-> ps] :
        ps \in UNION {[1..n -> PdfPages] : n \in 1..MaxPages}}
    \cup {[parsable |-> TRUE, pages |-> <<PageLong>>],
          [parsable |-> TRUE, pages |-> <<PageTall>>],
          [parsable |-> TRUE, pages |-> <<PageMixed, PageTall>>],
          [parsable |-> TRUE,
           pages |-> << <<[Blk(<<10, 100, 110, 110>>, HelloAb) EXCEPT
                             !.mylines = << <<[Span(HelloAb, <<10, 100, 110, 110>>)
                                                 EXCEPT !.size = 12]>> >>]>> >>],
          [parsable |-> FALSE, pages |-> <<>>]}

-----------------------------------------------------------------------------
(* translate_pdf, lines 385-517, step by step *)

\* analyze_pdf for a parsable document: the units of all pages (lines 179-233)
RECURSIVE AnalyzePages(_, _)
AnalyzePages(pages, page_no) ==
    IF page_no > Len(pages) THEN <<>>
    ELSE LET p == pages[page_no]
             m == merge_related_blocks(RawBlocks(p), RawHeap(p))
         IN UnitsOf(m.merged, m.heap, page_no - 1) \o AnalyzePages(pages, page_no + 1)

\* lines 402-407 with each page's units in reverse
GroupByPage_Reversed(units, n) ==
    [pg \in 0..(n - 1) |->
        LET us == SelectSeq(units, LAMBDA u : u.page = pg)
        IN [i \in 1..Len(us) |-> us[Len(us) + 1 - i]]]

\* lines 402-407
GroupByPage(units, n) ==
    [pg \in 0..(n - 1) |-> SelectSeq(units, LAMBDA u : u.page = pg)]

\* the character class of line 431
HasLetter(s) ==
    \E i \in 1..Len(s) :
        \/ IsAsciiLetter(s[i])
        \/ s[i] \in 1024..1279
        \/ s[i] \in 1536..1791
        \/ s[i] \in 12352..12543
        \/ s[i] \in 19968..40959
        \/ s[i] \in 44032..55215

\* the tests of lines 422-426 alone
SkipsUnitText_OnlyEmpty(block) ==
    block.block_type # 0 \/ Strip(block.text) = <<>>

\* the tests of lines 422-432
SkipsUnitText(block) ==
    LET block_text == Strip(block.text)
    IN \/ block.block_type # 0
       \/ block_text = <<>> \/ IsDigit(block_text) \/ Len(block_text) < 3
       \/ ~HasLetter(block_text)

RectWidth(bbox) == bbox[3] - bbox[1]
RectHeight(bbox) == bbox[4] - bbox[2]
\* the test of line 440
TooSmall(bbox) == RectWidth(bbox) < 10 \/ RectHeight(bbox) < 10

\* lines 468-476: start_y + line_idx * line_height, line_height = 1.3 * size
YPos(bbox, font_size, idx) ==
    FAdd(FAdd(FOfRatio(bbox[2], 1), font_size),
         FMul(FOfRatio(idx, 1), FMul(font_size, FOfRatio(13, 10))))

\* no test of the vertical position
WithinBox_Always(bbox, y_pos) == TRUE
\* the test of line 479
WithinBox(bbox, y_pos) == FLeq(y_pos, FOfRatio(bbox[4], 1))

PEvent(kind, info) ==
    [kind |-> kind, page |-> page_num, unit |-> unit_idx, info |-> info]

ThisUnit == blocks_by_page[page_num][unit_idx]

\* whether the document model may raise in the step at hand
MayRaise == IF faults_left > 0 THEN BOOLEAN ELSE {FALSE}

PdfIdle ==
    /\ pdf_pc = "off"
    /\ doc = [parsable |-> FALSE, pages |-> <<>>]
    /\ target_language = "es"
    /\ blocks_by_page = <<>>
    /\ total_pages = 0
    /\ page_num = 0
    /\ unit_idx = 0
    /\ translated_text = <<>>
    /\ adjusted_font_size = FOfRatio(1, 1)
    /\ wrapped_lines = <<>>
    /\ line_idx = 0
    /\ pdf_log = <<>>
    /\ pdf_result = "none"
    /\ faults_left = 0

PdfInit ==
    /\ pdf_pc = "start"
    /\ doc \in Docs
    /\ target_language \in LangChoices
    /\ blocks_by_page = <<>>
    /\ total_pages = 0
    /\ page_num = 0
    /\ unit_idx = 0
    /\ translated_text = <<>>
    /\ adjusted_font_size = FOfRatio(1, 1)
    /\ wrapped_lines = <<>>
    /\ line_idx = 0
    /\ pdf_log = <<>>
    /\ pdf_result = "none"
    /\ faults_left \in 0..MaxFaults

\* the exception leaves the loops and the function: nothing is returned
PdfCatch_Abort(log, step) ==
    /\ pdf_log' = Append(Append(log, PEvent("raise", step)), PEvent("error", <<>>))
    /\ unit_idx' = unit_idx
    /\ pdf_pc' = "done"
    /\ faults_left' = faults_left - 1

\* the statement at hand raises; the except clause of lines 495-497:
\* st.warning, then the next unit
PdfCatch(log, step) ==
    /\ pdf_log' = Append(Append(log, PEvent("raise", step)), PEvent("warning", <<>>))
    /\ unit_idx' = unit_idx + 1
    /\ pdf_pc' = "unit"
    /\ faults_left' = faults_left - 1

\* the except clause of lines 515-517: st.error, and None is returned
PdfFail ==
    /\ pdf_log' = Append(pdf_log, PEvent("error", <<>>))
    /\ pdf_result' = "None"
    /\ pdf_pc' = "done"
    /\ faults_left' = faults_left - 1

\* the test of line 391 on what analyze_pdf returned
NothingToTranslate_Never(ok, units) == FALSE
NothingToTranslate(ok, units) == ~ok \/ units = <<>>

\* lines 387-412: analyze_pdf, the copy of the document, the grouping by page
PdfStart ==
    /\ UNCHANGED <<mergeVars, ttVars, fontVars>>
    /\ pdf_pc = "start"
    /\ LET units == IF doc.parsable THEN AnalyzePages(doc.pages, 1) ELSE <<>>
       IN IF NothingToTranslate(doc.parsable, units)
          THEN /\ pdf_result' = "None"
               /\ pdf_pc' = "done"
               \* st.error of line 238, when fitz.open or the analysis raised
               /\ pdf_log' = IF doc.parsable THEN pdf_log
                             ELSE Append(pdf_log, PEvent("analyze_error", <<>>))
               /\ UNCHANGED <<blocks_by_page, total_pages, faults_left>>
          ELSE \* lines 395-399: the save and the reopening may raise
               \E raise \in MayRaise :
                 IF raise
                 THEN PdfFail /\ UNCHANGED <<blocks_by_page, total_pages>>
                 ELSE /\ total_pages' = Len(doc.pages)
                      /\ blocks_by_page' = GroupByPage(units, Len(doc.pages))
                      /\ pdf_pc' = "page"
                      /\ UNCHANGED <<pdf_result, pdf_log, faults_left>>
    /\ UNCHANGED <<doc, target_language, page_num, unit_idx, translated_text,
                   adjusted_font_size, wrapped_lines, line_idx>>

\* lines 414-420: the next page
PdfPage ==
    /\ UNCHANGED <<mergeVars, ttVars, fontVars>>
    /\ pdf_pc = "page"
    /\ page_num < total_pages
    /\ unit_idx' = 1
    /\ pdf_pc' = "unit"
    /\ UNCHANGED <<doc, target_language, blocks_by_page, total_pages, page_num,
                   translated_text, adjusted_font_size, wrapped_lines, line_idx,
                   pdf_log, pdf_result, faults_left>>

\* lines 420-444: the gates of one unit, then the call of translate_text
PdfUnit ==
    /\ UNCHANGED <<mergeVars, fontVars>>
    /\ pdf_pc = "unit"
    /\ unit_idx <= Len(blocks_by_page[page_num])
    /\ IF SkipsUnitText(ThisUnit) \/ TooSmall(ThisUnit.bbox)
       THEN /\ unit_idx' = unit_idx + 1
            /\ UNCHANGED <<pdf_pc, pdf_log, ttVars>>
       ELSE /\ pdf_pc' = "translating"
            /\ pdf_log' = Append(pdf_log, PEvent("translate", Strip(ThisUnit.text)))
            /\ TTEnter(Strip(ThisUnit.text), target_language)
            /\ UNCHANGED unit_idx
    /\ UNCHANGED <<doc, target_language, blocks_by_page, total_pages, page_num,
                   translated_text, adjusted_font_size, wrapped_lines, line_idx,
                   pdf_result, faults_left>>

\* lines 444-450: translate_text has returned; add_redact_annot and
\* apply_redactions, either of which may raise
PdfRedact ==
    /\ UNCHANGED <<mergeVars, fontVars>>
    /\ pdf_pc = "translating"
    /\ tt_pc = "done"
    /\ translated_text' = tt_result
    /\ tt_pc' = "idle"
    /\ UNCHANGED <<tt_text, tt_lang, tt_stub, provider, tt_depth, tt_cur,
                   paragraphs, tt_pidx, translated_paragraphs, attempt, chunks,
                   tt_cidx, translated_chunks, tt_result, tt_log>>
    /\ LET log == Append(pdf_log, PEvent("translated", tt_log))
       IN \E raise \in MayRaise, applied \in BOOLEAN :
            IF raise
            THEN PdfCatch(IF applied
                          THEN Append(log, PEvent("redact", ThisUnit.bbox))
                          ELSE log,
                          "redact")
            ELSE /\ applied
                 /\ pdf_log' = Append(log, PEvent("redact", ThisUnit.bbox))
                 /\ pdf_pc' = "layout"
                 /\ UNCHANGED <<unit_idx, faults_left>>
    /\ UNCHANGED <<doc, target_language, blocks_by_page, total_pages, page_num,
                   adjusted_font_size, wrapped_lines, line_idx, pdf_result>>

\* lines 453-472: the font size and the wrapping, from the first span
PdfLayout ==
    /\ UNCHANGED <<mergeVars, ttVars, fontVars>>
    /\ pdf_pc = "layout"
    /\ \E raise \in MayRaise :
         IF raise
         THEN PdfCatch(pdf_log, "layout")
              /\ UNCHANGED <<adjusted_font_size, wrapped_lines, line_idx>>
         ELSE LET span == ThisUnit.spans[1]
              IN /\ adjusted_font_size' =
                        adjust_font_size(translated_text, RectWidth(ThisUnit.bbox),
                                         span.size)
                 /\ wrapped_lines' =
                        calculate_text_wrap(translated_text, adjusted_font_size',
                                            RectWidth(ThisUnit.bbox))
                 /\ line_idx' = 0
                 /\ pdf_log' = Append(pdf_log, PEvent("layout", adjusted_font_size'))
                 /\ pdf_pc' = "insert"
                 /\ UNCHANGED <<unit_idx, faults_left>>
    /\ UNCHANGED <<doc, target_language, blocks_by_page, total_pages, page_num,
                   translated_text, pdf_result>>

\* one iteration of the loop of lines 475-494: insert_text may raise
PdfInsertLine ==
    /\ UNCHANGED <<mergeVars, ttVars, fontVars>>
    /\ pdf_pc = "insert"
    /\ line_idx < Len(wrapped_lines)
    /\ LET y_pos == YPos(ThisUnit.bbox, adjusted_font_size, line_idx)
       IN IF WithinBox(ThisUnit.bbox, y_pos)
          THEN \E raise \in MayRaise :
                 IF raise
                 THEN PdfCatch(pdf_log, "insert") /\ UNCHANGED line_idx
                 ELSE /\ pdf_log' = Append(pdf_log,
                            PEvent("insert",
                                   [idx |-> line_idx, y |-> y_pos,
                                    line |-> wrapped_lines[line_idx + 1],
                                    fontsize |-> adjusted_font_size]))
                      /\ line_idx' = line_idx + 1
                      /\ UNCHANGED <<pdf_pc, unit_idx, faults_left>>
          ELSE /\ line_idx' = line_idx + 1
               /\ UNCHANGED <<pdf_pc, unit_idx, faults_left, pdf_log>>
    /\ UNCHANGED <<doc, target_language, blocks_by_page, total_pages, page_num,
                   translated_text, adjusted_font_size, wrapped_lines, pdf_result>>

\* the loop of line 475 has run out: the next unit
PdfUnitDone ==
    /\ UNCHANGED <<mergeVars, ttVars, fontVars>>
    /\ pdf_pc = "insert"
    /\ line_idx >= Len(wrapped_lines)
    /\ unit_idx' = unit_idx + 1
    /\ pdf_pc' = "unit"
    /\ UNCHANGED <<doc, target_language, blocks_by_page, total_pages, page_num,
                   translated_text, adjusted_font_size, wrapped_lines, line_idx,
                   pdf_log, pdf_result, faults_left>>

\* line 500 with the page index one too low
ProgressValue_ZeroBased(pg, total) == Frac(pg, total)
\* line 500
ProgressValue(pg, total) == Frac(pg + 1, total)

\* lines 499-502, after the last unit of the page
PdfProgress ==
    /\ UNCHANGED <<mergeVars, ttVars, fontVars>>
    /\ pdf_pc = "unit"
    /\ unit_idx > Len(blocks_by_page[page_num])
    /\ pdf_log' = Append(pdf_log, PEvent("progress", ProgressValue(page_num, total_pages)))
    /\ page_num' = page_num + 1
    /\ pdf_pc' = "page"
    /\ UNCHANGED <<doc, target_language, blocks_by_page, total_pages, unit_idx,
                   translated_text, adjusted_font_size, wrapped_lines, line_idx,
                   pdf_result, faults_left>>

\* lines 504-517, after the last page: the save may raise
PdfSave ==
    /\ UNCHANGED <<mergeVars, ttVars, fontVars>>
    /\ pdf_pc = "page"
    /\ page_num >= total_pages
    /\ \E raise \in MayRaise :
         IF raise
         THEN PdfFail
         ELSE /\ pdf_result' = "bytes"
              /\ pdf_pc' = "done"
              /\ UNCHANGED <<pdf_log, faults_left>>
    /\ UNCHANGED <<doc, target_language, blocks_by_page, total_pages, page_num,
                   unit_idx, translated_text, adjusted_font_size, wrapped_lines,
                   line_idx>>

PdfNext ==
    \/ PdfStart
    \/ PdfPage
    \/ PdfUnit
    \/ PdfRedact
    \/ PdfLayout
    \/ PdfInsertLine
    \/ PdfUnitDone
    \/ PdfProgress
    \/ PdfSave

-----------------------------------------------------------------------------
(* The specifications *)

MergeIdle ==
    /\ m_pc = "off"
    /\ blocks = <<>>
    /\ heap = <<>>
    /\ sorted_blocks = <<>>
    /\ m_idx = 0
    /\ merged_blocks = <<>>
    /\ has_current = FALSE
    /\ current_block = NoBlock
    /\ current_y = 0
    /\ m_trace = <<>>
    /\ text_blocks = <<>>

\* the extractor on one page
SpecMergeInit == MergeInit /\ TTIdle /\ FontIdle /\ PdfIdle
SpecMerge == SpecMergeInit /\ [][MergeNext]_vars

\* translate_text on one text
TextInit ==
    /\ MergeIdle
    /\ FontIdle
    /\ PdfIdle
    /\ \E text \in TextChoices, lang \in LangChoices, stub \in StubChoices :
          TTCall(text, lang, stub, "flaky")

TTNext ==
    \/ TTStart
    \/ TTParagraph
    \/ TTParagraphsDone
    \/ TTCallWhole
    \/ TTBeginChunks
    \/ TTChunk
    \/ TTChunksDone
    \/ TTFallback

SpecText == TextInit /\ [][TTNext]_vars

\* the layout fitter on one text, box width and font size
SpecFontInit == MergeIdle /\ TTIdle /\ PdfIdle /\ FontInit
SpecFont == SpecFontInit /\ [][FontNext]_vars

\* translate_pdf on one document; the provider is up or down for the whole run
SpecPdfInit ==
    /\ MergeIdle
    /\ FontIdle
    /\ PdfInit
    /\ \E prov \in {"up", "down"} :
          /\ tt_pc = "idle"
          /\ provider = prov
          /\ tt_text = <<>>
          /\ tt_lang = "es"
          /\ tt_stub = "identity"
          /\ tt_depth = 0
          /\ tt_cur = <<>>
          /\ paragraphs = <<>>
          /\ tt_pidx = 0
          /\ translated_paragraphs = <<>>
          /\ attempt = 0
          /\ chunks = <<>>
          /\ tt_cidx = 0
          /\ translated_chunks = <<>>
          /\ tt_result = <<>>
          /\ tt_log = <<>>

\* the text of a unit is its span texts joined by single spaces: it holds no
\* blank line, so the paragraph loop of lines 64-76 is never entered here
SpecPdfNext ==
    \/ PdfNext
    \/ TTStart
    \/ TTCallWhole
    \/ TTBeginChunks
    \/ TTChunk
    \/ TTChunksDone
    \/ TTFallback

SpecPdf == SpecPdfInit /\ [][SpecPdfNext]_vars

-----------------------------------------------------------------------------
(* Claims about the extractor *)

\* the block the merge loop is about to process
NextBlock == blocks[sorted_blocks[m_idx]]
AtTextBlock ==
    m_pc = "loop" /\ m_idx <= Len(sorted_blocks) /\ ~IsNonText(NextBlock)

\* C1: in the merge pass a text block is merged into the accumulator exactly
\* when an accumulator exists and the block's top y is within 15 units of the
\* accumulator's bottom y (the bottom edge of all it holds, also when it holds
\* one block); otherwise a new accumulator starts.
C1_MergeByBottomGap ==
    [][(AtTextBlock /\ m_idx' = m_idx + 1) =>
          ((m_trace'[Len(m_trace')] = "merge") <=>
              (has_current
                 /\ Abs(NextBlock.bbox[2] - current_block.bbox[4]) <= 15))]_vars

\* C7: the bbox of every emitted unit is the coordinate-wise minimum of
\* (x0, y0) and maximum of (x1, y1) over the unit's non-blank spans.
C7_BBoxIsSpanUnion ==
    \A u \in 1..Len(text_blocks) :
        LET sp == text_blocks[u].spans
        IN text_blocks[u].bbox =
              <<MinOf({sp[i].bbox[1] : i \in 1..Len(sp)}),
                MinOf({sp[i].bbox[2] : i \in 1..Len(sp)}),
                MaxOf({sp[i].bbox[3] : i \in 1..Len(sp)}),
                MaxOf({sp[i].bbox[4] : i \in 1..Len(sp)})>>

-----------------------------------------------------------------------------
(* Claims about translate_text *)

ProviderCalls == {i \in 1..Len(tt_log) : tt_log[i].kind = "call"}
AllCallsFailed == \A i \in ProviderCalls : ~tt_log[i].ok
AllCallsSucceeded == \A i \in ProviderCalls : tt_log[i].ok
Returned == tt_pc = "done"

\* C2: every chunk handed to the provider has at most 4000 characters.
C2_ChunksWithinMax ==
    \A i \in ProviderCalls : Len(tt_log[i].text) <= 4000

\* C3, as claimed: when every provider call fails, the result for a
\* non-blank text is the substitution-table result for the language or the
\* original text, and is not empty.
C3_FallbackOfWholeText ==
    (Returned /\ ~IsBlank(tt_text) /\ AllCallsFailed) =>
        /\ tt_result = fallback_dictionary_translation(tt_text, tt_lang)
        /\ tt_result # <<>>

\* what remains of paragraph p when no provider call succeeds
UntranslatedParagraph(p, lang) ==
    IF Len(p) < 3 \/ IsDigit(p) THEN p
    ELSE fallback_dictionary_translation(p, lang)

\* C3, amended: when every provider call fails, the result for a non-blank
\* text of one paragraph is the substitution-table result or the original
\* text; for a text of several paragraphs it is the trimmed paragraphs, each
\* substituted or left as it is, joined by one blank line; it is never empty.
C3_FallbackPerParagraph ==
    (Returned /\ ~IsBlank(tt_text) /\ AllCallsFailed) =>
        LET ps == SplitParagraphs(tt_text)
        IN /\ tt_result # <<>>
           /\ IF Len(ps) > 1
              THEN tt_result =
                     Join([i \in 1..Len(ps) |-> UntranslatedParagraph(ps[i], tt_lang)],
                          <<10, 10>>)
              ELSE tt_result = fallback_dictionary_translation(tt_text, tt_lang)

\* a text of two paragraphs with a wider break came back, substituted, after
\* failed provider calls only
C3_Witness ==
    /\ Returned
    /\ AllCallsFailed
    /\ ProviderCalls # {}
    /\ Len(paragraphs) > 1
    /\ tt_result # tt_text
    /\ tt_result # Join(paragraphs, <<10, 10>>)

\* C4, as claimed: with a provider that returns its input, a text of two or
\* more paragraphs comes back as its trimmed non-empty paragraphs joined by one
\* blank line, and a text already in that form comes back unchanged.
C4_ParagraphRoundTrip ==
    (Returned /\ tt_stub = "identity" /\ AllCallsSucceeded
        /\ Len(SplitParagraphs(tt_text)) > 1) =>
        /\ tt_result = Join(SplitParagraphs(tt_text), <<10, 10>>)
        /\ (tt_text = Join(SplitParagraphs(tt_text), <<10, 10>>) => tt_result = tt_text)

\* C4, amended: the same, for texts none of whose paragraphs is longer than
\* 4000 characters.
C4_ShortParagraphRoundTrip ==
    (Returned /\ tt_stub = "identity" /\ AllCallsSucceeded
        /\ Len(SplitParagraphs(tt_text)) > 1
        /\ \A i \in 1..Len(SplitParagraphs(tt_text)) :
              Len(SplitParagraphs(tt_text)[i]) <= 4000) =>
        /\ tt_result = Join(SplitParagraphs(tt_text), <<10, 10>>)
        /\ (tt_text = Join(SplitParagraphs(tt_text), <<10, 10>>) => tt_result = tt_text)

\* two paragraphs separated by more than one blank line came back through the
\* provider, joined by one
C4_Witness ==
    /\ Returned
    /\ tt_stub = "identity"
    /\ AllCallsSucceeded
    /\ Cardinality(ProviderCalls) >= 2
    /\ Len(paragraphs) = 2
    /\ tt_result # tt_text
    /\ tt_result = paragraphs[1] \o <<10, 10>> \o paragraphs[2]

-----------------------------------------------------------------------------
(* Claims about the layout fitter *)

\* C5: adjust_font_size returns at least 70% of the original font size.
C5_FontFloor ==
    f_pc = "wrap" =>
        FLeq(FMul(FOfRatio(f_size, 1), FOfRatio(7, 10)), f_adjusted)

\* a text too wide for its box came back at exactly the floor
C5_Witness ==
    /\ f_pc = "wrap"
    /\ Len(f_text) * f_size * 6 > f_width * 10 * 2
    /\ f_adjusted = FMul(FOfRatio(f_size, 1), FOfRatio(7, 10))

-----------------------------------------------------------------------------
(* Claims about translate_pdf *)

EventsOf(kinds) == {i \in 1..Len(pdf_log) : pdf_log[i].kind \in kinds}
EventsAt(kinds, pg, u) ==
    {i \in EventsOf(kinds) : pdf_log[i].page = pg /\ pdf_log[i].unit = u}
UnitAt(i) == blocks_by_page[pdf_log[i].page][pdf_log[i].unit]
Grouped == blocks_by_page # <<>>
UnitPositions ==
    IF Grouped
    THEN {pu \in (0..(total_pages - 1)) \X (1..MaxBlocks + 1) :
            pu[2] <= Len(blocks_by_page[pu[1]])}
    ELSE {}
Finished == pdf_pc = "done"

\* the units the gates of translate_pdf leave out
Gated(unit) ==
    LET t == Strip(unit.text)
    IN \/ unit.block_type # 0
       \/ t = <<>>
       \/ \A i \in 1..Len(t) : t[i] \in 48..57
       \/ Len(t) < 3
       \/ ~HasLetter(t)
       \/ unit.bbox[3] - unit.bbox[1] < 10
       \/ unit.bbox[4] - unit.bbox[2] < 10

\* C6: a unit that is non-text, blank, digits only, shorter than 3 characters,
\* without a letter, or narrower or shorter than 10 is never translated,
\* redacted or rewritten.
C6_GatedUnitsUntouched ==
    \A i \in EventsOf({"translate", "translated", "redact", "layout", "insert"}) :
        ~Gated(UnitAt(i))

\* a document came back in which a digits-only unit and a narrow unit were
\* left alone and another unit was redacted
C6_Witness ==
    /\ Finished
    /\ pdf_result = "bytes"
    /\ EventsOf({"redact"}) # {}
    /\ \E pu \in UnitPositions :
          /\ IsDigit(Strip(blocks_by_page[pu[1]][pu[2]].text))
          /\ EventsAt({"translate", "redact", "insert"}, pu[1], pu[2]) = {}
    /\ \E pu \in UnitPositions :
          /\ HasLetter(blocks_by_page[pu[1]][pu[2]].text)
          /\ RectWidth(blocks_by_page[pu[1]][pu[2]].bbox) < 10
          /\ EventsAt({"translate", "redact", "insert"}, pu[1], pu[2]) = {}

\* the warnings of one unit: the one of the except clause and those
\* translate_text emitted for it
WarningsIn(log) == Cardinality({j \in 1..Len(log) : log[j].kind = "warning"})
WarningsAt(pg, u) ==
    Cardinality(EventsAt({"warning"}, pg, u))
    + (IF EventsAt({"translated"}, pg, u) = {} THEN 0
       ELSE WarningsIn(pdf_log[CHOOSE i \in EventsAt({"translated"}, pg, u) : TRUE].info))

\* every unit that passes the gates was taken up once, in document order
ProcessedInOrder ==
    /\ \A pu \in UnitPositions :
          ~Gated(blocks_by_page[pu[1]][pu[2]]) =>
              Cardinality(EventsAt({"translate"}, pu[1], pu[2])) = 1
    /\ \A i, j \in EventsOf({"translate"}) :
          i < j => \/ pdf_log[i].page < pdf_log[j].page
                   \/ /\ pdf_log[i].page = pdf_log[j].page
                      /\ pdf_log[i].unit < pdf_log[j].unit

DocumentLevelError == EventsOf({"error", "analyze_error"}) # {}

C9_ParsableYieldsDocument ==
    (Finished /\ doc.parsable /\ EventsOf({"error"}) = {}) => pdf_result = "bytes"

\* C10: when the document cannot be opened or analysed, nothing is returned
\* and there is no provider call, redaction, insertion or progress report.
C10_ParseFailureDoesNothing ==
    ~doc.parsable =>
        /\ Finished => pdf_result = "None"
        /\ pdf_result # "bytes"
        /\ EventsOf({"translate", "translated", "redact", "layout", "insert",
                     "progress"}) = {}
        /\ tt_log = <<>>
        /\ tt_pc = "idle"

\* the run on a document that cannot be parsed is over
C10_Witness ==
    /\ Finished
    /\ ~doc.parsable
    /\ pdf_result = "None"
    /\ EventsOf({"analyze_error"}) # {}

\* the progress reports so far, in the order of their emission
ProgressReports == SelectSeq(pdf_log, LAMBDA e : e.kind = "progress")

\* C11: in a run that returns a document, progress is reported once per page,
\* in ascending page index, with value (page index + 1) / total_pages, also
\* for pages without units and pages where a unit raised; the values increase
\* strictly, lie in [0,1] and end at 1.
C11_ProgressOncePerPage ==
    LET reports == ProgressReports
    IN /\ \A k \in 1..Len(reports) :
             /\ reports[k].page = k - 1
             /\ reports[k].page < total_pages
             /\ reports[k].info.n * total_pages = reports[k].info.d * k
             /\ reports[k].info.n >= 0
             /\ reports[k].info.n <= reports[k].info.d
             /\ k > 1 => reports[k - 1].info.n * reports[k].info.d
                            < reports[k].info.n * reports[k - 1].info.d
       /\ (Finished /\ pdf_result = "bytes") =>
             /\ Len(reports) = total_pages
             /\ reports[Len(reports)].info.n = reports[Len(reports)].info.d

\* a document of two pages came back, one page without units and one where a
\* unit raised, with both pages reported
C11_Witness ==
    /\ Finished
    /\ pdf_result = "bytes"
    /\ total_pages = 2
    /\ \E pg \in 0..1 : blocks_by_page[pg] = <<>>
    /\ EventsOf({"raise"}) # {}
    /\ Len(ProgressReports) = 2

-----------------------------------------------------------------------------
(* Claims about the retries of translate_text *)

\* the events of the unit with key k: 0 is the text itself, p >= 1 the p-th
\* paragraph of a text of several paragraphs
UnitKeys == {tt_log[i].para : i \in 1..Len(tt_log)}
EventsOfUnit(k, kinds) ==
    {i \in 1..Len(tt_log) : tt_log[i].para = k /\ tt_log[i].kind \in kinds}
AttemptFailed(k, a) ==
    \E i \in EventsOfUnit(k, {"error"}) : tt_log[i].attempt = a

\* at most max_retries attempts per unit; a failed call is followed at once by
\* one warning and a delay of one second; a further attempt is made only after
\* the earlier one has failed
RetryDiscipline ==
    /\ \A k \in UnitKeys :
          /\ Cardinality(EventsOfUnit(k, {"error"})) <= 3
          /\ \A i \in EventsOfUnit(k, {"call", "error"}) : tt_log[i].attempt \in 0..2
          /\ Cardinality(EventsOfUnit(k, {"error"}))
               = Cardinality({i \in EventsOfUnit(k, {"call"}) : ~tt_log[i].ok})
          /\ \A i, j \in EventsOfUnit(k, {"call"}) :
                i < j =>
                  /\ tt_log[i].attempt <= tt_log[j].attempt
                  /\ tt_log[i].attempt < tt_log[j].attempt =>
                        AttemptFailed(k, tt_log[i].attempt)
                  /\ tt_log[i].attempt = tt_log[j].attempt => tt_log[i].ok
    /\ \A i \in ProviderCalls :
          ~tt_log[i].ok =>
              /\ i + 2 <= Len(tt_log)
              /\ tt_log[i + 1].kind = "error"
              /\ tt_log[i + 1].para = tt_log[i].para
              /\ tt_log[i + 2].kind = "sleep"
              /\ tt_log[i + 2].dur = 10

\* the calls of attempt a on the text itself, in order
CallsOfAttempt(a) ==
    SelectSeq(tt_log, LAMBDA e : e.kind = "call" /\ e.para = 0 /\ e.attempt = a)
LastAttempt ==
    MaxOf({tt_log[i].attempt : i \in EventsOfUnit(0, {"call"})})

\* a text processed as one unit returns what the provider gave on the first
\* attempt that did not fail
SuccessIsReturned ==
    (Returned /\ EventsOfUnit(0, {"call"}) # {} /\ ~AttemptFailed(0, LastAttempt)) =>
        LET calls == CallsOfAttempt(LastAttempt)
        IN tt_result =
             Join([c \in 1..Len(calls) |->
                     IF tt_stub = "upper" THEN Upper(calls[c].text) ELSE calls[c].text],
                  <<32>>)

\* what is left to do, as a number: the paragraphs not yet done, then the
\* attempts not yet made, then the chunks not yet sent
StepsWidth == Len(tt_text) + 3
UnitSteps ==
    IF tt_pc = "attempt" THEN (3 - attempt) * StepsWidth + 1
    ELSE (3 - attempt) * StepsWidth - tt_cidx
StepsLeft ==
    LET perParagraph == 3 * StepsWidth + 3
    IN IF tt_pc = "done" THEN 0
       ELSE IF tt_pc = "start" THEN (Len(tt_text) + 2) * perParagraph + 2
       ELSE IF tt_pc = "paras"
            THEN (Len(paragraphs) + 1 - tt_pidx) * perParagraph + 1
       ELSE IF tt_depth = 1
            THEN (Len(paragraphs) - tt_pidx) * perParagraph + 1 + UnitSteps
       ELSE UnitSteps

\* every state before the return is at a statement that can be executed
AtAStatement ==
    /\ tt_pc \in {"start", "paras", "attempt", "chunks", "done"}
    /\ tt_pc = "paras" => tt_pidx \in 1..(Len(paragraphs) + 1)
    /\ tt_pc = "attempt" => attempt \in 0..3
    /\ tt_pc = "chunks" => attempt \in 0..2 /\ tt_cidx \in 1..(Len(chunks) + 1)
    /\ StepsLeft >= 0

\* C12: per unit at most max_retries attempts, each failed attempt with one
\* warning and a delay before any further call, the first successful attempt
\* ends the retrying and is returned, and translate_text terminates: every
\* step lowers the bounded count of what is left to do.
C12_BoundedRetries ==
    /\ [](RetryDiscipline /\ SuccessIsReturned /\ AtAStatement)
    /\ [][StepsLeft' < StepsLeft]_vars

\* a text processed as one unit failed twice and came back from the third
\* attempt
C12_Witness ==
    /\ Returned
    /\ Len(paragraphs) = 1
    /\ Cardinality(EventsOfUnit(0, {"error"})) = 2
    /\ Cardinality(EventsOfUnit(0, {"call"})) = 3
    /\ ~AttemptFailed(0, 2)
    /\ tt_result = tt_text

-----------------------------------------------------------------------------
(* Claims about what translate_text passes through *)

DigitsOrShort(p) == Len(p) < 3 \/ IsDigit(p)

\* C13: no paragraph made of digits only or shorter than 3 characters is sent
\* to the provider, and such a paragraph is returned unchanged, in a text of
\* several paragraphs and in a text of one.
C13_DigitsAndShortPassThrough ==
    /\ \A i \in ProviderCalls : ~DigitsOrShort(Strip(tt_log[i].text))
    /\ (Returned /\ Len(paragraphs) = 1 /\ DigitsOrShort(paragraphs[1])) =>
          Strip(tt_result) = paragraphs[1]
    /\ (Returned /\ Len(paragraphs) > 1) =>
          \A p \in 1..Len(paragraphs) :
              DigitsOrShort(paragraphs[p]) => translated_paragraphs[p] = paragraphs[p]

\* the characters str.strip removes from the texts at hand
Whitespace == {9, 10, 11, 12, 13, 32}

\* C14: for an empty or whitespace-only text translate_text returns the empty
\* string at once, with no provider call, no warning and no delay.
C14_BlankReturnsEmpty ==
    (\A i \in 1..Len(tt_text) : tt_text[i] \in Whitespace) =>
        /\ tt_pc \in {"start", "done"}
        /\ tt_log = <<>>
        /\ Returned => tt_result = <<>>

\* the call on a text of two line breaks has returned
C14_Witness ==
    /\ Returned
    /\ tt_text = <<10, 10>>
    /\ tt_result = <<>>
    /\ tt_log = <<>>

-----------------------------------------------------------------------------
(* Claims about the chunks of a long text *)

RECURSIVE SentencesOfChunks(_)
SentencesOfChunks(cs) ==
    IF cs = <<>> THEN <<>>
    ELSE SplitSentences(cs[1]) \o SentencesOfChunks(Tail(cs))

\* s without its whitespace: the words between the whitespace runs, in order
WordsBetweenSpace(s) == WordsOf(s)

UpperAscii(s) == [i \in 1..Len(s) |-> IF s[i] \in 97..122 THEN s[i] - 32 ELSE s[i]]

\* the text is longer than the maximum chunk length and is one unit
ChunkedAsOneUnit == Len(tt_text) > 4000 /\ Len(paragraphs) = 1

\* C15: the chunks of a long text hold its sentences, each whole and once, in
\* their order; they are sent in that order; the result is the translations
\* joined by single spaces, which with an uppercasing provider is the
\* uppercased text up to whitespace at the sentence boundaries.
C15_ChunksCoverSentences ==
    /\ (ChunkedAsOneUnit /\ tt_pc = "chunks" /\ tt_cidx = 1) =>
          SentencesOfChunks(chunks) = SplitSentences(tt_text)
    /\ (ChunkedAsOneUnit /\ tt_pc = "chunks") =>
          /\ chunks # <<>>
          /\ LET sent == CallsOfAttempt(attempt)
                 due == SelectSeq(SubSeq(chunks, 1, tt_cidx - 1),
                                  LAMBDA c : \E i \in 1..Len(c) : c[i] \notin Whitespace)
             IN [c \in 1..Len(sent) |-> sent[c].text] = due
    /\ (ChunkedAsOneUnit /\ Returned /\ ~AttemptFailed(0, LastAttempt)) =>
          LET calls == CallsOfAttempt(LastAttempt)
          IN /\ SelectSeq(SentencesOfChunks([c \in 1..Len(calls) |-> calls[c].text]),
                          LAMBDA x : x # <<>>)
                  = SelectSeq(SplitSentences(tt_text), LAMBDA x : x # <<>>)
             /\ tt_stub = "upper" =>
                  /\ tt_result =
                       Join([c \in 1..Len(calls) |-> UpperAscii(calls[c].text)], <<32>>)
                  /\ WordsBetweenSpace(tt_result) = WordsBetweenSpace(UpperAscii(tt_text))

\* a long text with a line break between its sentences went to an uppercasing
\* provider and came back with a space in its place
C15_Witness ==
    /\ ChunkedAsOneUnit
    /\ Returned
    /\ tt_stub = "upper"
    /\ ~AttemptFailed(0, LastAttempt)
    /\ Len(CallsOfAttempt(LastAttempt)) = 1
    /\ Len(tt_result) < Len(tt_text)
    /\ \E i \in 1..Len(tt_text) : tt_text[i] = 10

-----------------------------------------------------------------------------
(* Claims about the paragraphs of a text *)

ParagraphsDone == IF Returned THEN Len(paragraphs) ELSE tt_pidx - 1
CallsOfParagraph(k, a) ==
    SelectSeq(tt_log, LAMBDA e : e.kind = "call" /\ e.para = k /\ e.attempt = a)
Answer(t) == IF tt_stub = "upper" THEN UpperAscii(t) ELSE t

\* the outcome of paragraph k follows from the paragraph and its own calls
OwnOutcome(k) ==
    LET p == paragraphs[k]
        calls == EventsOfUnit(k, {"call"})
        errors == EventsOfUnit(k, {"error"})
    IN IF DigitsOrShort(p)
       THEN calls = {} /\ errors = {} /\ translated_paragraphs[k] = p
       ELSE /\ \E i \in calls : tt_log[i].attempt = 0
            /\ \A i \in calls : \E c \in 1..Len(tt_log[i].text) :
                  tt_log[i].text[c] \notin Whitespace
            /\ IF Cardinality(errors) = 3
               THEN translated_paragraphs[k] = fallback_dictionary_translation(p, tt_lang)
               ELSE LET last == MaxOf({tt_log[i].attempt : i \in calls})
                        sent == CallsOfParagraph(k, last)
                    IN /\ Cardinality(errors) = last
                       /\ translated_paragraphs[k] =
                            Join([c \in 1..Len(sent) |-> Answer(sent[c].text)], <<32>>)

\* C16: in a text of several paragraphs each translatable paragraph is
\* translated on its own, without a further split, with max_retries attempts
\* of its own; its result follows from its own calls alone; the output has one
\* piece per non-empty paragraph, in order; the recursion is one level deep.
C16_ParagraphsIndependent ==
    /\ tt_depth \in 0..1
    /\ tt_depth = 1 =>
          /\ tt_pc \in {"attempt", "chunks"}
          /\ tt_pidx \in 1..Len(paragraphs)
          /\ tt_cur = paragraphs[tt_pidx]
    /\ Len(paragraphs) > 1 =>
          /\ Len(translated_paragraphs) = ParagraphsDone
          /\ \A k \in 1..ParagraphsDone : OwnOutcome(k)
          /\ \A i \in 1..Len(tt_log) : tt_log[i].para \in 1..Len(paragraphs)
          /\ Returned => tt_result = Join(translated_paragraphs, <<10, 10>>)

\* the first paragraph used up its three attempts, the second then failed
\* once and was translated on its second attempt
C16_Witness ==
    /\ Returned
    /\ Len(paragraphs) = 2
    /\ Cardinality(EventsOfUnit(1, {"error"})) = 3
    /\ Cardinality(EventsOfUnit(2, {"error"})) = 1
    /\ Cardinality(EventsOfUnit(2, {"call"})) = 2
    /\ tt_stub = "upper"
    /\ translated_paragraphs[2] = UpperAscii(paragraphs[2])

-----------------------------------------------------------------------------
(* Claims about the rewrite of a region *)

\* C17: when font sizing, wrapping or line insertion of a unit fails, the
\* region of the unit still holds its original content: it has not been
\* redacted.
C17_RewriteIsAtomic ==
    \A i \in EventsOf({"raise"}) :
        pdf_log[i].info \in {"layout", "insert"} =>
            EventsAt({"redact"}, pdf_log[i].page, pdf_log[i].unit) = {}

-----------------------------------------------------------------------------
(* Claims about the width factor *)

\* the size adjust_font_size returns when the width factor is tenths / 10
SizeForFactor(text, width, size, tenths) ==
    LET approx == FMul(FOfRatio(Len(text) * size, 1), FOfRatio(tenths, 10))
        scaled == FMul(FOfRatio(size, 1), FDiv(FOfRatio(width, 1), approx))
        floor == FMul(FOfRatio(size, 1), FOfRatio(7, 10))
    IN IF FLeq(approx, FOfRatio(width, 1)) THEN FOfRatio(size, 1)
       ELSE IF FLeq(floor, scaled) THEN scaled ELSE floor
IsCyrillicOrArabic(c) == c \in 1024..1279 \/ c \in 1536..1791

\* C18: the width factor is 0.6 for a text with no character above code point
\* 1000, and 1.1 for a Russian or Arabic text, whose approximate width is
\* len(text) * original_font_size * 1.1.
C18_FactorPerScript ==
    f_pc = "wrap" =>
        /\ (\A i \in 1..Len(f_text) : f_text[i] <= 1000) =>
              f_adjusted = SizeForFactor(f_text, f_width, f_size, 6)
        /\ (/\ \E i \in 1..Len(f_text) : f_text[i] > 1000
            /\ \A i \in 1..Len(f_text) : f_text[i] > 1000 => IsCyrillicOrArabic(f_text[i])) =>
              f_adjusted = SizeForFactor(f_text, f_width, f_size, 11)

-----------------------------------------------------------------------------
(* Claims about the substitution table *)

\* the units that have returned, and what each returned
UnitsReturned ==
    (IF Returned /\ Len(paragraphs) = 1 THEN {0} ELSE {})
    \cup {k \in 1..ParagraphsDone : Len(paragraphs) > 1 /\ ~DigitsOrShort(paragraphs[k])}
UnitText(k) == IF k = 0 THEN tt_text ELSE paragraphs[k]
UnitResult(k) == IF k = 0 THEN tt_result ELSE translated_paragraphs[k]

\* C19: the substitution table is consulted only after max_retries failed
\* attempts and never after a successful one; a text it changes is returned
\* substituted; a text it leaves as it is (no entry matches, or no table for
\* the language) is returned unchanged with exactly one more warning.
C19_TableOnlyAfterRetries ==
    /\ \A i \in 1..Len(tt_log) :
          tt_log[i].kind = "fallback" =>
              LET k == tt_log[i].para
                  before(kinds) == {j \in EventsOfUnit(k, kinds) : j < i}
              IN /\ {tt_log[j].attempt : j \in before({"error"})} = 0..2
                 /\ Cardinality(before({"error"})) = 3
                 /\ before({"fallback"}) = {}
                 /\ \A j \in EventsOfUnit(k, {"call"}) : j < i
                 /\ tt_log[i].text = UnitText(k)
    /\ \A k \in UnitsReturned :
          LET lookups == EventsOfUnit(k, {"fallback"})
              warnings == Cardinality(EventsOfUnit(k, {"warning"}))
              table == IF tt_lang = "es" THEN translation_dictionaries["es"] ELSE <<>>
              substituted == SubAll(UnitText(k), table)
          IN IF lookups = {}
             THEN warnings = 0 /\ Cardinality(EventsOfUnit(k, {"error"})) < 3
             ELSE IF substituted # UnitText(k)
             THEN UnitResult(k) = substituted /\ warnings = 0
             ELSE UnitResult(k) = UnitText(k) /\ warnings = 1

\* after three failed attempts one text came back substituted without a
\* warning
C19_Witness ==
    /\ Returned
    /\ Len(paragraphs) = 1
    /\ tt_lang = "es"
    /\ Cardinality(EventsOfUnit(0, {"error"})) = 3
    /\ EventsOfUnit(0, {"fallback"}) # {}
    /\ EventsOfUnit(0, {"warning"}) = {}
    /\ tt_result # tt_text

-----------------------------------------------------------------------------
(* Claims about the order of the steps of translate_pdf *)

\* the place of a step in the processing of one unit
StepRank(kind) ==
    CASE kind = "translate" -> 1
      [] kind = "translated" -> 2
      [] kind = "redact" -> 3
      [] kind = "layout" -> 4
      [] kind = "insert" -> 5
      [] kind = "raise" -> 6
      [] kind = "warning" -> 7
      [] OTHER -> 0
StepsOfUnits == EventsOf({"translate", "translated", "redact", "layout", "insert",
                          "raise", "warning"})
Earlier(i, j) ==
    \/ pdf_log[i].page < pdf_log[j].page
    \/ pdf_log[i].page = pdf_log[j].page /\ pdf_log[i].unit < pdf_log[j].unit
SameUnit(i, j) ==
    pdf_log[i].page = pdf_log[j].page /\ pdf_log[i].unit = pdf_log[j].unit

\* C20: pages are processed in ascending index and the units of a page in
\* extraction order, one at a time; the steps of a unit come in the order
\* translate, redact, font size and wrapping, insertion of the lines; a unit
\* is redacted at most once and only after its translation has returned; no
\* step of a later unit comes before the last step of an earlier one.
C20_StepsInOrder ==
    /\ (pdf_pc = "page" /\ page_num = 0) =>
          \A pg \in 0..(total_pages - 1) :
              blocks_by_page[pg]
                = SelectSeq(AnalyzePages(doc.pages, 1), LAMBDA u : u.page = pg)
    /\ \A i, j \in StepsOfUnits :
          i < j =>
            /\ Earlier(i, j) \/ SameUnit(i, j)
            /\ SameUnit(i, j) =>
                  /\ StepRank(pdf_log[i].kind) <= StepRank(pdf_log[j].kind)
                  /\ StepRank(pdf_log[i].kind) = StepRank(pdf_log[j].kind) =>
                        /\ pdf_log[i].kind = "insert"
                        /\ pdf_log[i].info.idx < pdf_log[j].info.idx
    /\ \A i \in EventsOf({"redact"}) :
          \E j \in EventsOf({"translated"}) : j < i /\ SameUnit(i, j)
    /\ \A i \in EventsOf({"translated"}) : pdf_log[i - 1].kind = "translate"
    /\ \A i \in EventsOf({"progress"}) :
          \A j \in StepsOfUnits : j < i <=> pdf_log[j].page <= pdf_log[i].page
    /\ pdf_pc \in {"translating", "layout", "insert"} =>
          /\ pdf_log # <<>>
          /\ pdf_log[Len(pdf_log)].page = page_num
          /\ pdf_log[Len(pdf_log)].unit = unit_idx

\* two units of one page were each translated, redacted and rewritten, and a
\* unit of the next page followed, rewritten in several lines
C20_Witness ==
    /\ Finished
    /\ pdf_result = "bytes"
    /\ \E i, j \in EventsOf({"redact"}) :
          /\ pdf_log[i].page = pdf_log[j].page
          /\ pdf_log[i].unit < pdf_log[j].unit
          /\ Cardinality(EventsAt({"insert"}, pdf_log[i].page, pdf_log[i].unit)) >= 1
    /\ \E i, j \in EventsOf({"insert"}) :
          SameUnit(i, j) /\ i # j /\ pdf_log[i].page = 1

-----------------------------------------------------------------------------
(* Claims about the placement of the lines *)

\* the lines inserted so far for the unit u of page pg, in order
InsertedAt(pg, u) ==
    SelectSeq(pdf_log, LAMBDA e : e.kind = "insert" /\ e.page = pg /\ e.unit = u)

\* C21: line i of a unit is inserted at y0 + font_size + i * 1.3 * font_size,
\* never below y1 of the box, and the inserted lines are a prefix of the
\* wrapped lines.
C21_LinesWithinBox ==
    /\ \A i \in EventsOf({"insert"}) :
          LET e == pdf_log[i].info
              box == UnitAt(i).bbox
          IN /\ i = Len(pdf_log) =>
                   e.y = FAdd(FAdd(FOfRatio(box[2], 1), e.fontsize),
                              FMul(FOfRatio(e.idx, 1),
                                   FMul(FOfRatio(13, 10), e.fontsize)))
             /\ i = Len(pdf_log) => FLeq(e.y, FOfRatio(box[4], 1))
             /\ e.fontsize.m # <<>>
    /\ \A pu \in UnitPositions :
          LET ins == InsertedAt(pu[1], pu[2])
          IN \A k \in 1..Len(ins) : ins[k].info.idx = k - 1
    /\ pdf_pc = "insert" =>
          LET ins == InsertedAt(page_num, unit_idx)
          IN /\ Len(ins) <= line_idx
             /\ \A k \in 1..Len(ins) : ins[k].info.line = wrapped_lines[k]

\* a unit wrapped to two lines had its first line inserted and its second cut
\* off at the bottom of the box
C21_Witness ==
    /\ pdf_pc = "insert"
    /\ Len(wrapped_lines) = 2
    /\ line_idx = 2
    /\ Len(InsertedAt(page_num, unit_idx)) = 1

-----------------------------------------------------------------------------
(* Claims about the wrapping *)

\* the text does not fit on one line at the font size the wrap is called with
DoesNotFit ==
    ~FLeq(FMul(FOfRatio(Len(f_text), 1), FMul(f_adjusted, FOfRatio(6, 10))),
          FOfRatio(f_width, 1))
\* floor(box_width / (0.6 * font_size))
Budget == CharsPerLine(f_adjusted, f_width)

RECURSIVE WordsOfLines(_)
WordsOfLines(lines) ==
    IF lines = <<>> THEN <<>> ELSE WordsOf(lines[1]) \o WordsOfLines(Tail(lines))

\* C22: when the text does not fit on one line, every returned line has at
\* most floor(box_width / (0.6 * font_size)) characters unless it is one single
\* word longer than that, and the words of the text appear across the lines
\* in their order, none lost, none duplicated.
C22_WrapKeepsWords ==
    (f_pc = "done" /\ DoesNotFit) =>
        /\ \A i \in 1..Len(f_lines) :
              \/ Len(f_lines[i]) <= Budget
              \/ WordsOf(f_lines[i]) = <<f_lines[i]>> /\ Len(f_lines[i]) > Budget
        /\ WordsOfLines(f_lines) = WordsOf(f_text)

\* a wrap into several lines, one of them with two words, where the budget
\* leaves room for more than one word
C22_Witness ==
    /\ f_pc = "done"
    /\ DoesNotFit
    /\ Len(f_lines) >= 3
    /\ \E i \in 1..Len(f_lines) : Len(WordsOf(f_lines[i])) >= 2
    /\ \E i \in 1..Len(f_lines) : Len(WordsOf(f_lines[i])) = 1

-----------------------------------------------------------------------------
(* Claims about the agreement of font size and wrapping *)

\* adjust_font_size has returned the floor of 70% because the scaled size was
\* below it
FloorReached ==
    LET approx == FMul(FOfRatio(Len(f_text) * f_size, 1),
                       FOfRatio(WidthFactor(f_text), 10))
    IN /\ ~FLeq(approx, FOfRatio(f_width, 1))
       /\ ~FLeq(FMul(FOfRatio(f_size, 1), FOfRatio(7, 10)),
                FMul(FOfRatio(f_size, 1), FDiv(FOfRatio(f_width, 1), approx)))

\* C23: whenever adjust_font_size keeps the original size because the text
\* fits or returns the ratio-scaled size, the floor of 70% not being reached,
\* calculate_text_wrap with that size and the same width returns the whole
\* text as one single line.
C23_SizeAndWrapAgree ==
    (f_pc = "done" /\ ~FloorReached) => f_lines = <<f_text>>

-----------------------------------------------------------------------------
(* Claims about the blocks that are not text *)

IsText(b) == b.type = 0 /\ b.has_lines
IsImage(b) == ~IsText(b)
\* the lists of lines as they were before the pass: a raw block of the pages
\* on offer has at most one line
FirstLines == [i \in DOMAIN heap |-> IF heap[i] = <<>> THEN <<>> ELSE <<heap[i][1]>>]
\* the raw blocks in the order of the sort of line 247
RawSorted == [k \in 1..Len(blocks) |-> blocks[SortedByTop(blocks)[k]]]

\* C24: the merge pass emits every non-text block exactly once and unchanged,
\* and the text blocks it emits, the lines they hold and the units made of
\* them are those of the same page with the non-text blocks removed.
C24_NonTextPassesThrough ==
    /\ m_pc = "begin" => heap = FirstLines
    /\ m_pc = "merged" =>
          LET only == merge_related_blocks(SelectSeq(blocks, IsText), FirstLines)
          IN /\ SelectSeq(merged_blocks, IsImage) = SelectSeq(RawSorted, IsImage)
             /\ SelectSeq(merged_blocks, IsText) = only.merged
             /\ heap = only.heap
             /\ UnitsOf(merged_blocks, heap, 0) = UnitsOf(only.merged, only.heap, 0)

\* a non-text block came between two text blocks that were merged
C24_Witness ==
    /\ m_pc = "merged"
    /\ m_trace = <<"start", "emit", "merge">>
    /\ Len(merged_blocks) = 2

-----------------------------------------------------------------------------
(* Claims about the spans of the units *)

HasText(sp) == Strip(sp.text) # <<>>
\* the spans with text of the raw text blocks k.. in the order of the sort,
\* each block's spans in their own order
RECURSIVE SpansFrom(_)
SpansFrom(k) ==
    IF k > Len(blocks) THEN <<>>
    ELSE (IF IsText(RawSorted[k])
          THEN SelectSeq(FlattenLines(FirstLines[RawSorted[k].lines]), HasText)
          ELSE <<>>) \o SpansFrom(k + 1)
\* the spans of the units i.. one after the other
RECURSIVE SpansOfUnits(_)
SpansOfUnits(i) ==
    IF i > Len(text_blocks) THEN <<>>
    ELSE text_blocks[i].spans \o SpansOfUnits(i + 1)
SpanTexts(u) == [i \in 1..Len(u.spans) |-> u.spans[i].text]

\* what C25 says of the spans: the spans of the units, one unit after the
\* other, are the spans with text of the page's text blocks in the order of
\* the y-sorted blocks, each exactly once; no unit is empty
SpansPartitioned ==
    /\ SpansOfUnits(1) = SpansFrom(1)
    /\ \A i \in 1..Len(text_blocks) :
          text_blocks[i].spans # <<>> /\ text_blocks[i].text # <<>>

\* C25, as the code has it: the spans of the units partition the spans with
\* text in order, no unit is empty, and the text of a unit is the texts of
\* its spans joined by a space, with the whitespace at both ends stripped.
C25_SpansPartitioned ==
    m_pc = "analyzed" =>
        /\ SpansPartitioned
        /\ \A i \in 1..Len(text_blocks) :
              text_blocks[i].text = Strip(Join(SpanTexts(text_blocks[i]), <<32>>))

\* C25 as stated: the text of a unit is the space-joined texts of its spans
C25_TextIsSpaceJoined ==
    m_pc = "analyzed" =>
        /\ SpansPartitioned
        /\ \A i \in 1..Len(text_blocks) :
              text_blocks[i].text = Join(SpanTexts(text_blocks[i]), <<32>>)

\* two units, the first merged of two blocks, its last span ending in a space,
\* and a block of whitespace alone that gave no unit
C25_Witness ==
    /\ m_pc = "analyzed"
    /\ Len(blocks) = 3
    /\ Len(text_blocks) = 1
    /\ Len(text_blocks[1].spans) = 2
    /\ text_blocks[1].spans[2].text = TextAB \o TextSpace
    /\ m_trace = <<"start", "merge", "start">>

-----------------------------------------------------------------------------
(* Claims about the effect of the merge pass on its input *)

\* C27: _merge_related_blocks leaves its input unchanged: no step of the pass
\* changes a raw block's bbox or the list of lines a raw block refers to.
C27_InputUnchanged == [][blocks' = blocks /\ heap' = heap]_vars

-----------------------------------------------------------------------------
(* Claims about the boxes of the units of a page *)

\* two boxes share a region of positive area
Overlap(a, b) == a[1] < b[3] /\ b[1] < a[3] /\ a[2] < b[4] /\ b[2] < a[4]

\* C29: on every page, the bounding boxes of two distinct emitted text units
\* never overlap.
C29_UnitsDisjoint ==
    m_pc = "analyzed" =>
        \A i, j \in 1..Len(text_blocks) :
            i # j => ~Overlap(text_blocks[i].bbox, text_blocks[j].bbox)

-----------------------------------------------------------------------------
(* Claims about the chunks of a long text *)

CallTexts(k, a) == [c \in 1..Len(CallsOfParagraph(k, a)) |-> CallsOfParagraph(k, a)[c].text]
NonBlank(cs) == SelectSeq(cs, LAMBDA c : ~IsBlank(c))
CurrentUnit == IF tt_depth = 1 THEN tt_pidx ELSE 0

\* C26: the chunks are sent to the provider one at a time, in their order, and
\* between two provider calls of the same attempt there is a delay of at least
\* half a second.
C26_DelayBetweenChunkCalls ==
    /\ \A i, j \in ProviderCalls :
          (i < j /\ tt_log[i].para = tt_log[j].para
                 /\ tt_log[i].attempt = tt_log[j].attempt) =>
              /\ tt_log[i].ok
              /\ \E k \in (i + 1)..(j - 1) :
                    tt_log[k].kind = "sleep" /\ tt_log[k].dur >= 5
    /\ tt_pc = "chunks" =>
          CallTexts(CurrentUnit, attempt) = NonBlank(SubSeq(chunks, 1, tt_cidx - 1))

\* a text of two chunks came back translated by the second attempt, the first
\* attempt having failed at the second chunk
C26_Witness ==
    /\ Returned
    /\ Len(paragraphs) = 1
    /\ Len(CallsOfParagraph(0, 0)) = 2
    /\ ~CallsOfParagraph(0, 0)[2].ok
    /\ Len(CallsOfParagraph(0, 1)) = 2
    /\ CallsOfParagraph(0, 1)[2].ok
    /\ Len(SelectSeq(tt_log, LAMBDA e : e.kind = "sleep" /\ e.dur = 5)) = 3

\* the result of unit k is the join of what the provider gave for all chunks
\* in attempt a, every earlier attempt having failed
WholeOfAttempt(k, a) ==
    LET calls == CallsOfParagraph(k, a)
    IN /\ CallTexts(k, a) = NonBlank(ChunksOf(UnitText(k)))
       /\ \A c \in 1..Len(calls) : calls[c].ok
       /\ UnitResult(k) = Join([c \in 1..Len(calls) |-> Answer(calls[c].text)], <<32>>)
       /\ \A b \in 0..(a - 1) : AttemptFailed(k, b)
       /\ \A b \in (a + 1)..2 : CallsOfParagraph(k, b) = <<>>
       /\ EventsOfUnit(k, {"fallback"}) = {}
\* the result of unit k is the fallback result for the whole text
WholeFallback(k) ==
    /\ \A b \in 0..2 : AttemptFailed(k, b)
    /\ UnitResult(k) = FallbackResult(UnitText(k), tt_lang)

\* C28: the result for a chunked text is the join of the provider's
\* translations of all chunks of one single attempt, or the fallback result
\* for the whole text; every attempt starts from the first chunk, and the
\* translations kept while an attempt runs are those of that attempt alone.
C28_AllOrNothing ==
    /\ \A k \in UnitsReturned :
          Len(UnitText(k)) > max_length =>
              /\ WholeFallback(k) \/ \E a \in 0..2 : WholeOfAttempt(k, a)
              /\ \A a \in 0..2 :
                    LET sent == CallTexts(k, a)
                    IN sent = SubSeq(NonBlank(ChunksOf(UnitText(k))), 1, Len(sent))
    /\ tt_pc = "chunks" =>
          LET calls == CallsOfParagraph(CurrentUnit, attempt)
          IN translated_chunks = [c \in 1..Len(calls) |-> Answer(calls[c].text)]

\* every attempt on a text of two chunks failed at the second chunk and the
\* text came back as the fallback result, with nothing of the translations
C28_Witness ==
    /\ Returned
    /\ Len(paragraphs) = 1
    /\ tt_stub = "upper"
    /\ \A a \in 0..2 :
          /\ Len(CallsOfParagraph(0, a)) = 2
          /\ CallsOfParagraph(0, a)[1].ok
          /\ ~CallsOfParagraph(0, a)[2].ok
    /\ tt_result = tt_text

-----------------------------------------------------------------------------
(* Claims about the regions left blank *)

\* C30: at the end of the run, every unit that was redacted and whose
\* processing raised no exception has at least one line inserted.
C30_NoRegionLeftBlank ==
    Finished =>
        \A pu \in UnitPositions :
            (/\ EventsAt({"redact"}, pu[1], pu[2]) # {}
             /\ EventsAt({"raise"}, pu[1], pu[2]) = {}) =>
                EventsAt({"insert"}, pu[1], pu[2]) # {}

=============================================================================
